---- MODULE Spec2Model ----
(***************************************************************************)
(* Model of src/src/exec0.ts: the single executor Exec0.one (four          *)
(* interaction modes, tee capture, non-zero-exit policy) and the batch     *)
(* dispatcher Exec0.many (sequential loop / Promise.all).                  *)
(*                                                                         *)
(* Text is a sequence of characters; the characters that matter to the     *)
(* line prefixer are "CR" and "LF", every other character is a letter.     *)
(* A step of the model is one turn of the JavaScript event loop: the       *)
(* synchronous part of many(), one stream event, or the settlement of one  *)
(* awaited child together with the continuations it resumes.               *)
(***************************************************************************)
EXTENDS Integers, Sequences, FiniteSets, TLC

\* ------------------------------------------------------------------ bounds
\* most records in a batch
MaxInv == 2
\* most characters the children of a batch deliver, over all their chunks
MaxText == 3
\* most commands, and most cwds, of a fan-out
MaxCmds == 2
MaxCwds == 2
\* most records in an explicit list whose prefixes are derived
MaxRecs == 3

\* --------------------------------------------------------------- constants
Chars == {"a", "CR", "LF"}
Streams == {"stdout", "stderr"}
\* Exec0.Interactive: true | 'tee' | false | 'real', written as text
Modes == {"true", "tee", "false", "real"}
Piped == {"tee", "false"}
\* what the awaited spawn primitive settles with: a result r carrying an
\* exitCode, a result without one (the child was killed by a signal or by
\* the timeout: r.exitCode is undefined), or a rejection
\* the result of a child the primitive terminated when `timeout` elapsed: it
\* has no exitCode either
TimedOut == [timedOut |-> TRUE]
Settlements ==
  {[exitCode |-> 0], [exitCode |-> 1], [cause |-> "killed"], [rejected |-> "spawn"],
   TimedOut}

VARIABLES
  createInput,  \* the CreateInput given to Exec0.create
  manyOptions,  \* the normalized arguments of many()
  oneArgs,      \* per invocation: the arguments its one() is called with
  processEnv,   \* process.env: the environment the children inherit
  composed,     \* the strings manyCommand() returned (none or one)
  normalized,   \* per invocation whose one() passed line 281: its `command`
  cfg,          \* the executor's fields
  parallel,     \* manyOptions.parallel
  opts,         \* execOneOptions: the expanded option records
  chunkBudget,  \* bound on the characters the children of the batch deliver
  manyPc,       \* "init", "awaiting", "returned", "raised"
  manyErr,      \* the errors many() rejected with (none or one)
  results,      \* the array many() builds and returns
  pc,           \* per invocation: "idle", "awaiting", "returned", "raised"
  res,          \* the ExecResult of each invocation whose one() returned
  error,        \* the error of each invocation whose one() raised
  child,        \* per invocation: "none", "running", "settled"
  streamOpen,   \* per invocation, per stream: the pipe has not ended
  arrived,      \* per invocation: chunks delivered so far, <<stream, chunk>>
  out,          \* teeAndCapture's out
  err,          \* teeAndCapture's err
  output,       \* teeAndCapture's output
  buf,          \* makeLinePrefixer's buf, per invocation and stream
  term,         \* writes issued to process.stdout / process.stderr
  logSink,      \* lines that reached options.log ?? console.log
  raiseOrder,   \* invocations in the order in which their one() raised
  settlement    \* what the spawn primitive settled with, per settled child

vars == <<createInput, manyOptions, oneArgs, processEnv, composed, normalized, cfg, parallel, opts, chunkBudget, manyPc,
          manyErr, results, pc, res, error, child, streamOpen, arrived, out,
          err, output, buf, term, logSink, raiseOrder, settlement>>

N == Len(opts)
Inv == 1..N

\* ----------------------------------------------------------------- helpers
RECURSIVE SeqsUpTo(_, _)
SeqsUpTo(S, n) ==
  IF n = 0 THEN {<<>>}
  ELSE LET shorter == SeqsUpTo(S, n - 1)
       IN shorter \cup {Append(s, c) : s \in {t \in shorter : Len(t) = n - 1}, c \in S}

Chunks == SeqsUpTo(Chars, MaxText) \ {<<>>}
\* the chunks of at most n characters
ChunksWithin == [n \in 0..MaxText |-> {c \in Chunks : Len(c) <= n}]

\* an optional field of an object: o.f ?? d
Has(o, f) == f \in DOMAIN o
Opt(o, f, d) == IF Has(o, f) THEN o[f] ELSE d

RECURSIVE Flatten(_)
Flatten(ss) == IF ss = <<>> THEN <<>> ELSE Head(ss) \o Flatten(Tail(ss))

\* the chunks of one stream, in arrival order
RECURSIVE ChunksOf(_, _)
ChunksOf(evs, s) ==
  IF evs = <<>> THEN <<>>
  ELSE IF Head(evs)[1] = s THEN <<Head(evs)[2]>> \o ChunksOf(Tail(evs), s)
       ELSE ChunksOf(Tail(evs), s)

\* all chunks of both streams, in arrival order
AllChunks(evs) == [k \in 1..Len(evs) |-> evs[k][2]]

\* -------------------------------------------------------------- Exec0.create
create(input) ==
  [ throwNonZero |-> Opt(input, "throwNonZero", FALSE),
    interactive  |-> Opt(input, "interactive", "tee"),
    silent       |-> Opt(input, "silent", FALSE),
    prefixSuffix |-> Opt(input, "prefixSuffix", <<"|">>),
    fixPrefixesLength |-> Opt(input, "fixPrefixesLength", TRUE),
    colors       |-> Opt(input, "colors", "true"),
    env          |-> Opt(input, "env", [x \in {} |-> ""]),
    commandPrefix  |-> IF Has(input, "commandPrefix") THEN {input.commandPrefix} ELSE {},
    commandWrapper |-> IF Has(input, "commandWrapper") THEN {input.commandWrapper} ELSE {} ]

\* the destructuring defaults at the head of one()
Effective(o) ==
  [ interactive  |-> Opt(o, "interactive", cfg.interactive),
    silent       |-> Opt(o, "silent", cfg.silent),
    throwNonZero |-> Opt(o, "throwNonZero", cfg.throwNonZero),
    prefixSuffix |-> Opt(o, "prefixSuffix", cfg.prefixSuffix),
    colors       |-> Opt(o, "colors", cfg.colors) ]

\* const log = silent ? () => {} : (options.log ?? console.log)
Log(o, sink, lines) == IF Effective(o).silent THEN sink ELSE sink \o lines

\* const label = prefix ? `${prefix}${prefixSuffix}` : ''
Label(o) ==
  IF Opt(o, "prefix", <<>>) # <<>>
  THEN o.prefix \o Effective(o).prefixSuffix
  ELSE <<>>


\* ------------------------------------------------------- makeLinePrefixer
\* s.replace(/\r(?!\n)/g, '\n')
NormalizeCR(s) ==
  [k \in 1..Len(s) |->
     IF s[k] = "CR" /\ ~(k < Len(s) /\ s[k + 1] = "LF") THEN "LF" ELSE s[k]]

\* work.indexOf('\n'), 0 when there is none
IndexOfLF(work) ==
  IF \E k \in 1..Len(work) : work[k] = "LF"
  THEN CHOOSE k \in 1..Len(work) :
         work[k] = "LF" /\ \A j \in 1..(k - 1) : work[j] # "LF"
  ELSE 0

\* a push that hands the text to dest.write as it is
EmitLinesRaw(lbl, work, final) == IF work = <<>> THEN <<>> ELSE <<lbl \o work>>

\* the while loop of push and its final flush: the texts given to dest.write
RECURSIVE EmitLines(_, _, _)
EmitLines(lbl, work, final) ==
  LET idx == IndexOfLF(work) IN
  IF idx # 0
  THEN <<lbl \o SubSeq(work, 1, idx - 1) \o <<"LF">>>>
         \o EmitLines(lbl, SubSeq(work, idx + 1, Len(work)), final)
  ELSE IF final /\ Len(work) > 0 THEN <<lbl \o work \o <<"LF">>>> ELSE <<>>

\* push(s, final): the writes it issues to dest
push(lbl, s, final) == EmitLines(lbl, NormalizeCR(s), final)

Writes(i, dest, texts) ==
  [k \in 1..Len(texts) |-> [inv |-> i, dest |-> dest, text |-> texts[k]]]

\* ---------------------------------------------------------------- one()
\* typeof command === 'string' ? command : command.join(' ')
RECURSIVE JoinSpace(_)
JoinSpace(parts) ==
  IF parts = <<>> THEN <<>>
  ELSE IF Len(parts) = 1 THEN parts[1]
  ELSE Head(parts) \o <<" ">> \o JoinSpace(Tail(parts))

CmdStr(c) == IF c.form = "string" THEN c.text ELSE JoinSpace(c.parts)

\* ------------------------------------------------------- normalizeCommand
\* the placeholders of a wrapper, each one token of its text
Placeholder == "{{command}}"
PlaceholderEscaped == "{{commandEscaped}}"

\* text.includes(token)
includes(text, token) == \E k \in 1..Len(text) : text[k] = token

\* the replacement text of String.prototype.replaceAll with a string
\* pattern: a dollar followed by a dollar is one dollar, followed by & the
\* matched text, followed by a backtick (the token "BQ") the text before the
\* match, followed by a single quote the text after it; every other
\* character stands for itself
RECURSIVE GetSubstitution(_, _, _, _)
GetSubstitution(replacement, matched, before, after) ==
  IF replacement = <<>> THEN <<>>
  ELSE IF Head(replacement) = "$" /\ Len(replacement) >= 2
          /\ replacement[2] \in {"$", "&", "BQ", "'"}
  THEN (IF replacement[2] = "$" THEN <<"$">>
        ELSE IF replacement[2] = "&" THEN matched
        ELSE IF replacement[2] = "BQ" THEN before
        ELSE after)
         \o GetSubstitution(Tail(Tail(replacement)), matched, before, after)
  ELSE <<Head(replacement)>>
         \o GetSubstitution(Tail(replacement), matched, before, after)

\* text.replaceAll(token, replacement)
replaceAll(text, token, replacement) ==
  Flatten([k \in 1..Len(text) |->
             IF text[k] = token
             THEN GetSubstitution(replacement, <<token>>, SubSeq(text, 1, k - 1),
                                  SubSeq(text, k + 1, Len(text)))
             ELSE <<text[k]>>])

\* bashEscape (lines 215-223): a backslash before each double quote,
\* backslash, dollar and backtick; then each single quote becomes the five
\* characters single, double, single, double, single quote
bashEscape(command) ==
  Flatten([k \in 1..Len(command) |->
             IF command[k] \in {"\"", "\\", "$", "BQ"} THEN <<"\\", command[k]>>
             ELSE IF command[k] = "'" THEN <<"'", "\"", "'", "\"", "'">>
             ELSE <<command[k]>>])

StringForm(text) == [form |-> "string", text |-> text]
ArgvForm(parts) == [form |-> "argv", parts |-> parts]

\* a prefix step that always joins the prefix and the command into a string
commandPrefixedJoined(commandPrefix, original) ==
  IF commandPrefix = {} THEN original
  ELSE StringForm(CmdStr(CHOOSE x \in commandPrefix : TRUE) \o <<" ">> \o CmdStr(original))

\* lines 192-205: the prefix step. A prefix that may be null is the set of
\* at most one command
commandPrefixed(commandPrefix, original) ==
  IF commandPrefix = {} THEN original
  ELSE LET prefix == CHOOSE x \in commandPrefix : TRUE
       IN IF prefix.form = "string" /\ original.form = "string"
          THEN StringForm(prefix.text \o <<" ">> \o original.text)
          ELSE IF prefix.form = "string"
          THEN StringForm(prefix.text \o <<" ">> \o JoinSpace(original.parts))
          ELSE IF original.form = "string"
          THEN ArgvForm(Append(prefix.parts, original.text))
          ELSE ArgvForm(prefix.parts \o original.parts)

\* lines 206-234: the wrapper step, on the prefixed command
commandWrapped(commandWrapper, prefixed) ==
  IF commandWrapper = {} THEN prefixed
  ELSE LET wrapper == CHOOSE x \in commandWrapper : TRUE
           commandStr == CmdStr(prefixed)
       IN IF includes(wrapper, PlaceholderEscaped)
          THEN StringForm(replaceAll(wrapper, PlaceholderEscaped, bashEscape(commandStr)))
          ELSE IF includes(wrapper, Placeholder)
          THEN StringForm(replaceAll(wrapper, Placeholder, commandStr))
          ELSE ArgvForm(<<wrapper, commandStr>>)

\* this.normalizeCommand(original), lines 191-236
normalizeCommand(original) ==
  commandWrapped(cfg.commandWrapper, commandPrefixed(cfg.commandPrefix, original))

\* the local `command` of one(), assigned once at line 281 and read by the
\* rest of the call
NormalizedCommand(i) == normalized[i]

\* a path is the sequence of its segments, each a text; this one is what
\* process.cwd() returns
ProcessCwd == <<<<"h">>, <<"w">>>>

\* options.cwd ?? process.cwd(), through the default normalizeCwd
Cwd(o) == Opt(o, "cwd", ProcessCwd)

\* log lines carry the invocation they belong to (inv), which the real line
\* does not: it is there to state the claims
BannerLine(i) ==
  [inv |-> i, glyph |-> "banner", text |-> [cmd |-> CmdStr(normalizeCommand(opts[i].command))]]

\* r.exitCode || '?'   and   r.cause || '?'
CodeText(r) ==
  IF Has(r, "exitCode") /\ r.exitCode # 0 THEN ToString(r.exitCode) ELSE "?"
CauseText(r) == Opt(r, "cause", "?")

\* r.exitCode === 0
ExitedZero(r) == Has(r, "exitCode") /\ r.exitCode = 0

OkLine(i) == [inv |-> i, glyph |-> "ok", text |-> [ok |-> TRUE]]
FailLine(i, r) ==
  [inv |-> i, glyph |-> "fail",
   text |-> [code |-> CodeText(r), cause |-> CauseText(r)]]

\* new Error(`Command failed: ${subject} (code ...) (cause: ...)`)
CommandFailed(subject, r) ==
  [message |-> [failed |-> subject, code |-> CodeText(r), cause |-> CauseText(r)]]

\* the error the spawn primitive rejects with
SpawnFailure(i, st) == [message |-> [spawn |-> st.rejected, of |-> i]]

finalize(i, code, stdout, stderr, o) ==
  [cwd |-> Cwd(opts[i]), command |-> CmdStr(NormalizedCommand(i)), code |-> code,
   stdout |-> stdout, stderr |-> stderr, output |-> o]

\* the spawn primitive's r.stdout / r.stderr of a fully piped child: the text
\* the child wrote on the stream, without one final line break
StripFinalNewline(t) ==
  IF Len(t) >= 2 /\ t[Len(t) - 1] = "CR" /\ t[Len(t)] = "LF"
  THEN SubSeq(t, 1, Len(t) - 2)
  ELSE IF Len(t) >= 1 /\ t[Len(t)] = "LF" THEN SubSeq(t, 1, Len(t) - 1)
       ELSE t

\* a spawn that pipes the child's streams whatever the mode
StdioPipe(i) == "pipe"

\* the stdio option of the branch taken: `stdio: 'inherit'` in the 'real' and
\* the true branches (lines 420, 436, 480), pipes for stdout and stderr in
\* the tee branches (451, 500) and by default in the silent ones (456, 504)
Stdio(i) ==
  IF Effective(opts[i]).interactive \in {"real", "true"} THEN "inherit" ELSE "pipe"

\* r.stdout ?? '' and r.stderr ?? '': the primitive's result carries the text
\* of a stream only when it piped that stream
Buffered(i, s) ==
  IF Stdio(i) = "pipe" THEN StripFinalNewline(Flatten(ChunksOf(arrived[i], s)))
  ELSE <<>>

\* [r.stdout, r.stderr].filter(Boolean).join()
FilterJoin(a, b) == IF a # <<>> /\ b # <<>> THEN a \o <<",">> \o b ELSE a \o b

\* what the code after an await yields: the lines it gave to log, and the
\* result it returns or the error it throws
Returns(lines, result) == [lines |-> lines, result |-> result, thrown |-> {}]
Throws(lines, result, e) == [lines |-> lines, result |-> result, thrown |-> {e}]

\* a teeAndCapture that returns the result whatever the policy
teeAndCaptureNeverThrows(i, r) ==
  Returns(<<>>, finalize(i, Opt(r, "exitCode", 0), out[i], err[i], output[i]))

\* lines 395-400: the tail of teeAndCapture, after `await child`
teeAndCapture(i, r) ==
  LET result == finalize(i, Opt(r, "exitCode", 0), out[i], err[i], output[i])
  IN IF ~ExitedZero(r) /\ Effective(opts[i]).throwNonZero
     THEN Throws(<<>>, result, CommandFailed(CmdStr(NormalizedCommand(i)), r))
     ELSE Returns(<<>>, result)

\* the five branches that log the outcome themselves (lines 420-430,
\* 436-446, 456-472, 477-496, 504-519)
LoggedBranch(i, r, result, subject) ==
  LET lines == IF ExitedZero(r) THEN <<OkLine(i)>> ELSE <<FailLine(i, r)>>
  IN IF Effective(opts[i]).throwNonZero /\ ~ExitedZero(r)
     THEN Throws(lines, result, CommandFailed(subject, r))
     ELSE Returns(lines, result)

\* the try block of one(), from the settlement r of the awaited child on
TryBlock(i, r) ==
  LET c == NormalizedCommand(i)
      mode == Effective(opts[i]).interactive
      code == Opt(r, "exitCode", 0)
      empty == finalize(i, code, <<>>, <<>>, <<>>)
      piped == finalize(i, code, Buffered(i, "stdout"), Buffered(i, "stderr"),
                        FilterJoin(Buffered(i, "stdout"), Buffered(i, "stderr")))
  IN IF mode = "real" THEN LoggedBranch(i, r, empty, CmdStr(c))
     ELSE IF c.form = "string"
     THEN IF mode = "true" THEN LoggedBranch(i, r, empty, CmdStr(c))
          ELSE IF mode = "tee" THEN teeAndCapture(i, r)
          ELSE LoggedBranch(i, r, piped, CmdStr(c))
     ELSE IF mode = "true" THEN LoggedBranch(i, r, piped, Head(c.parts))
          ELSE IF mode = "tee" THEN teeAndCapture(i, r)
          ELSE LoggedBranch(i, r, piped, Head(c.parts))

\* an environment maps the names of its variables to their values
ColorVariables == {"FORCE_COLOR", "CLICOLOR", "CLICOLOR_FORCE", "COLORTERM", "NO_COLOR"}

\* lines 285-306: the color variables the policy sets, and those it sets to
\* undefined
colorsEnv(colors) ==
  IF colors = "true"
  THEN [set |-> [FORCE_COLOR |-> "3", CLICOLOR |-> "1", CLICOLOR_FORCE |-> "1",
                 COLORTERM |-> "truecolor"],
        undefined |-> {"NO_COLOR"}]
  ELSE IF colors = "false"
  THEN [set |-> [NO_COLOR |-> "1"],
        undefined |-> {"FORCE_COLOR", "CLICOLOR", "CLICOLOR_FORCE", "COLORTERM"}]
  ELSE [set |-> [x \in {} |-> ""], undefined |-> {}]

\* lines 281-313: { ...process.env, ...this.env, ...options.env, ...colorsEnv };
\* the child does not get a variable whose value is undefined
envForced(i) ==
  LET env == Opt(opts[i], "env", [x \in {} |-> ""]) @@ cfg.env
      forced == colorsEnv(Effective(opts[i]).colors)
      all == forced.set @@ env @@ processEnv
  IN [x \in DOMAIN all \ forced.undefined |-> all[x]]

\* process.env.SHELL || '/bin/bash' (lines 407-408)
userShell == <<"bash">>

\* execaCommand's parsing of a command text: the words between its spaces
RECURSIVE Words(_, _)
Words(text, word) ==
  IF text = <<>> THEN (IF word = <<>> THEN <<>> ELSE <<word>>)
  ELSE IF Head(text) = " "
       THEN (IF word = <<>> THEN <<>> ELSE <<word>>) \o Words(Tail(text), <<>>)
       ELSE Words(Tail(text), Append(word, Head(text)))

\* the call of the spawn primitive in each branch of the try block: the
\* executable, its arguments and the shell option. With shell: true the
\* text in `file` is handed to a shell as a whole.
SpawnCall(i) ==
  LET c == NormalizedCommand(i)
      mode == Effective(opts[i]).interactive
  IN IF mode = "real"
     THEN [file |-> userShell, args |-> <<<<"-i">>, <<"-c">>, CmdStr(c)>>,
           shell |-> FALSE]
     ELSE IF c.form = "string"
     THEN IF mode \in {"true", "tee"}
          THEN [file |-> CmdStr(c), args |-> <<>>, shell |-> TRUE]
          ELSE LET words == Words(CmdStr(c), <<>>)
               IN [file |-> Head(words), args |-> Tail(words), shell |-> FALSE]
     ELSE [file |-> Head(c.parts), args |-> Tail(c.parts), shell |-> FALSE]

\* catch (err) { log('✗', err?.message ?? err); throw err }
CatchLine(i, e) == [inv |-> i, glyph |-> "fail", text |-> e.message]
RethrownWrapped(e) == [message |-> [wrapped |-> e.message]]
Rethrown(e) == e

\* one(), from the settlement st of the spawn primitive to its own settlement
OneSettles(i, st) ==
  LET body == IF Has(st, "rejected")
              THEN Throws(<<>>, finalize(i, 0, <<>>, <<>>, <<>>), SpawnFailure(i, st))
              ELSE TryBlock(i, st)
  IN IF body.thrown = {} THEN body
     ELSE LET e == CHOOSE x \in body.thrown : TRUE
          IN Throws(body.lines \o <<CatchLine(i, e)>>, body.result, Rethrown(e))

\* ------------------------------------------------------------------- Init
Empty == [x \in {} |-> TRUE]
Field(name, values) == {[x \in {name} |-> v] : v \in values}
Maybe(name, values) == Field(name, values) \cup {Empty}

StringCommand(i) == [form |-> "string", text |-> <<"cmd", " ", ToString(i)>>]
ArgvCommand(i) == [form |-> "argv", parts |-> <<<<"cmd">>, <<ToString(i)>>>>]
Command(form, i) == IF form = "string" THEN StringCommand(i) ELSE ArgvCommand(i)

\* ------------------------------------------------ manyOptionsToOneOptions
\* manyOptions.command is one string command, or a list of commands (strings,
\* or argv lists for a matrix); manyOptions.cwd is one path or a list of
\* paths; manyOptions.names is a boolean or a list of texts
\* typeof command === 'string'
IsString(command) == command.form = "string"
\* Array.isArray(x), for cwd and for names
IsArray(x) == x.kind = "list"

\* nodePath.basename(cwd)
basename(cwd) == cwd[Len(cwd)]

\* the record r without the keys in keys
Without(r, keys) == [x \in DOMAIN r \ keys |-> r[x]]

\* const { command, cwd, names, options: optionsArray, ...rest } = manyOptions
Rest(mo) == Without(mo, {"command", "cwd", "names", "options"})

\* a value that may be undefined is the set of at most one value; as a
\* property `prefix` it is absent when undefined
PrefixField(p) == IF p = {} THEN Empty ELSE [prefix |-> CHOOSE x \in p : TRUE]

\* Array.isArray(names) ? names[index] : names === true ? whenTrue : undefined
\* (index counts from 0)
DerivedPrefix(mo, index, whenTrue) ==
  IF ~Has(mo, "names") THEN {}
  ELSE IF IsArray(mo.names)
       THEN IF index + 1 <= Len(mo.names.items) THEN {mo.names.items[index + 1]} ELSE {}
       ELSE IF mo.names.kind = "true" THEN {whenTrue} ELSE {}

\* a record of an explicit list that prefers the batch-level prefix to its own
FromRecordBatchFirst(mo, index) ==
  LET options == mo.options[index + 1]
      prefix == IF Has(Rest(mo), "prefix") THEN {Rest(mo).prefix}
                ELSE IF Has(options, "prefix") THEN {options.prefix}
                ELSE DerivedPrefix(mo, index, basename(Opt(options, "cwd", ProcessCwd)))
  IN PrefixField(prefix) @@ Without(options @@ Rest(mo), {"prefix"})

\* lines 596-604: the record made of record `index` of an explicit list
FromRecord(mo, index) ==
  LET options == mo.options[index + 1]
      cwd == Opt(options, "cwd", ProcessCwd)
      prefix == IF Has(options, "prefix") THEN {options.prefix}
                ELSE IF Has(Rest(mo), "prefix") THEN {Rest(mo).prefix}
                ELSE DerivedPrefix(mo, index, basename(cwd))
  IN PrefixField(prefix) @@ Without(options @@ Rest(mo), {"prefix"})

\* const cwds = cwd === undefined ? [process.cwd()] : Array.isArray(cwd) ? cwd : [cwd]
Cwds(mo) ==
  IF ~Has(mo, "cwd") THEN <<ProcessCwd>>
  ELSE IF IsArray(mo.cwd) THEN mo.cwd.paths ELSE <<mo.cwd.path>>

\* lines 608-611: the record of a single string command in cwds[cwdIndex]
FromString(mo, cwdIndex) ==
  LET cwd == Cwds(mo)[cwdIndex + 1]
      prefix == DerivedPrefix(mo, cwdIndex, basename(cwd))
  IN PrefixField(prefix) @@ [command |-> mo.command, cwd |-> cwd]
       @@ Without(Rest(mo), {"prefix"})

\* lines 613-622: the record of command commandIndex of a list, in
\* cwds[cwdIndex]
FromCombination(mo, cwdIndex, commandIndex) ==
  LET command == mo.command.items
      optionIndex == cwdIndex * Len(command) + commandIndex
      cwd == Cwds(mo)[cwdIndex + 1]
      prefixSuffix == IF Len(command) # 0 THEN <<".", ToString(commandIndex)>> ELSE <<>>
      prefix == DerivedPrefix(mo, optionIndex, basename(cwd) \o prefixSuffix)
  IN PrefixField(prefix) @@ [command |-> command[commandIndex + 1], cwd |-> cwd]
       @@ Without(Rest(mo), {"prefix"})

\* a fan-out that goes through the commands first and the cwds inside
FanOutCommandMajor(mo) ==
  IF IsString(mo.command)
  THEN [c \in 1..Len(Cwds(mo)) |-> FromString(mo, c - 1)]
  ELSE Flatten([m \in 1..Len(mo.command.items) |->
                  [c \in 1..Len(Cwds(mo)) |-> FromCombination(mo, c - 1, m - 1)]])

\* lines 606-624: cwds.flatMap(cwd => one record, or command.map(...))
FanOut(mo) ==
  IF IsString(mo.command)
  THEN [c \in 1..Len(Cwds(mo)) |-> FromString(mo, c - 1)]
  ELSE Flatten([c \in 1..Len(Cwds(mo)) |->
                  [m \in 1..Len(mo.command.items) |-> FromCombination(mo, c - 1, m - 1)]])

manyOptionsToOneOptions(mo) ==
  IF Has(mo, "options")
  THEN [k \in 1..Len(mo.options) |-> FromRecord(mo, k - 1)]
  ELSE FanOut(mo)

\* prefix.padEnd(n, ' ')
padEnd(t, n) == IF Len(t) >= n THEN t ELSE t \o [k \in 1..(n - Len(t)) |-> " "]

\* prefixes.reduce((max, prefix) => Math.max(max, prefix?.length ?? 0), 0)
RECURSIVE longestPrefix(_)
longestPrefix(os) ==
  IF os = <<>> THEN 0
  ELSE LET here == Len(Opt(Head(os), "prefix", <<>>))
           there == longestPrefix(Tail(os))
       IN IF here > there THEN here ELSE there

\* lines 781-787 of many(): the alignment of the prefixes
AlignPrefixes(os, fixPrefixesLength) ==
  IF os # <<>> /\ Has(os[1], "prefix") /\ fixPrefixesLength
  THEN [k \in 1..Len(os) |->
          IF Has(os[k], "prefix")
          THEN [os[k] EXCEPT !.prefix = padEnd(@, longestPrefix(os))]
          ELSE os[k]]
  ELSE os

\* lines 777-787 of many(): the records it hands to one()
execOneOptions(mo) ==
  AlignPrefixes(manyOptionsToOneOptions(mo),
                Opt(mo, "fixPrefixesLength", cfg.fixPrefixesLength))

\* a many() that pads the prefixes of the caller's own records
manyOptionsPadded(mo) ==
  IF Has(mo, "options")
  THEN [mo EXCEPT !.options =
          AlignPrefixes(@, Opt(mo, "fixPrefixesLength", cfg.fixPrefixesLength))]
  ELSE mo

\* the object the caller gave to many() or manyCommand(), after the call:
\* normalizeManyOptions assigns its fields to a new object (lines 544-546),
\* each record of the list is spread into a new record (line 603), and the
\* padding of lines 783-786 and 708-711 writes to those new records
manyOptionsAfter(mo) == mo

\* the arguments of one() or oneCommand() after the call: normalizeOneOptions
\* assigns the fields of an options argument to a new object (lines 158-160)
argsAfter(args) == args

\* the call many({ ...shared, options: [...] }): record i runs command i and
\* has the fields own[i]; shared holds the batch-level fields
OptionsList(forms, shared, own) ==
  [options |-> [i \in 1..Len(own) |-> [command |-> Command(forms[i], i)] @@ own[i]]]
    @@ shared

\* ---------------------------------------------------------------- manyCommand
\* a path as text: its segments, each after a separator
RECURSIVE PathText(_)
PathText(p) == IF p = <<>> THEN <<>> ELSE <<"/">> \o Head(p) \o PathText(Tail(p))

\* texts.join(sep)
RECURSIVE Join(_, _)
Join(texts, sep) ==
  IF texts = <<>> THEN <<>>
  ELSE IF Len(texts) = 1 THEN texts[1]
  ELSE texts[1] \o sep \o Join(Tail(texts), sep)

\* a oneCommand that leaves the directory out
oneCommandBare(o) == CmdStr(normalizeCommand(o.command))

\* lines 254-260: `(cd ${cwd} && ${commandStr})`
oneCommand(o) ==
  <<"(cd ">> \o PathText(Cwd(o)) \o <<" && ">> \o CmdStr(normalizeCommand(o.command))
    \o <<")">>

\* `"${text}"`
Quoted(text) == <<"\"">> \o text \o <<"\"">>

\* an expansion for manyCommand that leaves the prefixes as derived
manyCommandOneOptionsUnaligned(mo) == manyOptionsToOneOptions(mo)

\* lines 703-712 of manyCommand(): its own expansion of the arguments and its
\* own alignment of the prefixes, the local execOneOptions of manyCommand
manyCommandOneOptions(mo) ==
  AlignPrefixes(manyOptionsToOneOptions(mo),
                Opt(mo, "fixPrefixesLength", cfg.fixPrefixesLength))

\* lines 702-735: the string for the whole batch
manyCommand(mo, par) ==
  LET os == manyCommandOneOptions(mo)
      commandStrs == [k \in 1..Len(os) |-> oneCommand(os[k])]
      names == [k \in 1..Len(os) |-> Opt(os[k], "prefix", <<>>)]
      namesExists == \E k \in 1..Len(os) : names[k] # <<>>
      colors == [k \in 1..Len(os) |-> <<"auto">>]
      shell == IF Opt(mo, "interactive", "false") # "false"
               THEN <<<<"--shell ">> \o Quoted(<<"bash -i -c">>)>> ELSE <<>>
      named == IF namesExists
               THEN <<<<"--names ">> \o Quoted(Join(names, <<",">>)),
                      <<"--prefix-colors ">> \o Quoted(Join(colors, <<",">>))>>
               ELSE <<>>
  IN IF par
     THEN Join(<<<<"concurrently">>>> \o shell \o named
                 \o [k \in 1..Len(os) |-> Quoted(commandStrs[k])], <<" ">>)
     ELSE Join(commandStrs, <<" && ">>)

\* ----------------------------------------------------- normalizeOneOptions
\* an argument of one() is a string (a command text, or a path when it names
\* a directory), an argv list, an options object or undefined
OptionsArg(o) == [form |-> "options", fields |-> o]
PathArg(p) == [form |-> "string", path |-> p]
Undefined == [form |-> "undefined"]

\* the type guards of lines 66-73
isString(x) == x.form = "string"
isOptions(x) == x.form = "options"
isUndefined(x) == x.form = "undefined"

\* new Error(text), thrown by the normalizer
InvalidArgument(text) == [message |-> [invalid |-> text]]

\* an Object.assign that copies the command and the cwd only
assignCommandAndCwd(options, arg) ==
  [f \in DOMAIN arg.fields \cap {"command", "cwd"} |-> arg.fields[f]] @@ options

\* Object.assign(options, arg): the fields of arg, over those of options
assign(options, arg) == arg.fields @@ options

\* lines 154-189: the record, or the error thrown
normalizeOneOptions(args) ==
  IF Len(args) = 0 THEN [error |-> InvalidArgument("No command provided")]
  ELSE IF ~isOptions(args[1]) /\ ~isString(args[1])
  THEN [error |-> InvalidArgument("Invalid first argument")]
  ELSE
    LET first == IF isOptions(args[1]) THEN assign(Empty, args[1])
                 ELSE [command |-> args[1]]
    IN IF Len(args) = 1 THEN [options |-> first]
       ELSE IF ~isString(args[2]) /\ ~isOptions(args[2]) /\ ~isUndefined(args[2])
       THEN [error |-> InvalidArgument("Invalid second argument")]
       ELSE
         LET second == IF isString(args[2]) THEN [cwd |-> args[2].path] @@ first
                       ELSE IF isOptions(args[2]) THEN assign(first, args[2])
                       ELSE Without(first, {"cwd"})
         IN IF Len(args) = 2 THEN [options |-> second]
            ELSE IF isOptions(args[3]) THEN [options |-> assign(second, args[3])]
            ELSE IF isUndefined(args[3]) THEN [options |-> second]
            ELSE [error |-> InvalidArgument("Invalid third argument")]

\* the failure of the head of one() (lines 270-315), if any, as a set: the
\* error of the normalizer, or the TypeError of `command.join(' ')` when the
\* record has no command
HeadError(j) ==
  LET n == normalizeOneOptions(oneArgs[j])
  IN IF Has(n, "error") THEN {n.error}
     ELSE IF ~Has(n.options, "command")
          THEN {[message |-> [typeError |-> "command.join"]]}
          ELSE {}

\* the record one() works with, empty when the normalizer threw
Normalized(args) ==
  IF Has(normalizeOneOptions(args), "options") THEN normalizeOneOptions(args).options
  ELSE Empty

\* the environment of the process when nothing about colors is set in it
InheritedEnv == [PATH |-> "bin"]

Idle ==
  /\ composed = {}
  /\ normalized = Empty
  /\ manyPc = "init"
  /\ manyErr = {}
  /\ results = <<>>
  /\ pc = [i \in Inv |-> "idle"]
  /\ res = Empty
  /\ error = Empty
  /\ child = [i \in Inv |-> "none"]
  /\ streamOpen = [i \in Inv |-> [s \in Streams |-> FALSE]]
  /\ arrived = [i \in Inv |-> <<>>]
  /\ out = [i \in Inv |-> <<>>]
  /\ err = [i \in Inv |-> <<>>]
  /\ output = [i \in Inv |-> <<>>]
  /\ buf = [i \in Inv |-> [s \in Streams |-> <<>>]]
  /\ term = <<>>
  /\ logSink = <<>>
  /\ raiseOrder = <<>>
  /\ settlement = Empty

\* many() calls this.one(options) with each record as the only argument
Quiet ==
  /\ oneArgs = [i \in Inv |-> <<OptionsArg(opts[i])>>]
  /\ processEnv = InheritedEnv
  /\ Idle

\* a default executor and a batch of up to MaxInv string commands, run in tee
\* mode or with inherited stdio, each record with or without throwNonZero:
\* true (an explicit false is the default of create, which InitOne covers)
Init ==
  /\ createInput = Empty
  /\ cfg = create(createInput)
  /\ parallel \in BOOLEAN
  /\ \E n \in 1..MaxInv :
       \E shared \in Maybe("interactive", {"true"}) :
         \E own \in [1..n -> Maybe("throwNonZero", {TRUE})] :
           manyOptions = OptionsList([i \in 1..n |-> "string"], shared, own)
  /\ opts = execOneOptions(manyOptions)
  /\ chunkBudget = 1
  /\ Quiet

\* one record, every mode, both command forms, every non-zero-exit policy
InitOne ==
  /\ createInput \in Maybe("throwNonZero", BOOLEAN)
  /\ cfg = create(createInput)
  /\ parallel = FALSE
  /\ \E form \in {"string", "argv"} :
       \E m \in Maybe("interactive", Modes) :
         \E sl \in Maybe("silent", {TRUE}) :
           \E t \in Maybe("throwNonZero", BOOLEAN) :
             manyOptions = OptionsList(<<form>>, Empty, <<m @@ sl @@ t>>)
  /\ opts = execOneOptions(manyOptions)
  /\ chunkBudget = 1
  /\ Quiet

\* one record in tee mode, with or without a prefix, up to MaxText characters
InitTee ==
  /\ createInput = Empty
  /\ cfg = create(createInput)
  /\ parallel = FALSE
  /\ \E form \in {"string", "argv"} :
       \E p \in Maybe("prefix", {<<"p">>}) :
         \E t \in Maybe("throwNonZero", {TRUE}) :
           manyOptions = OptionsList(<<form>>, Empty, <<p @@ t>>)
  /\ opts = execOneOptions(manyOptions)
  /\ chunkBudget = MaxText
  /\ Quiet

\* one record in silent mode (interactive: false), up to MaxText characters
InitSilent ==
  /\ createInput = Empty
  /\ cfg = create(createInput)
  /\ parallel = FALSE
  /\ \E form \in {"string", "argv"} :
       \E m \in Field("interactive", {"false"}) :
         \E t \in Maybe("throwNonZero", {TRUE}) :
           manyOptions = OptionsList(<<form>>, Empty, <<m @@ t>>)
  /\ opts = execOneOptions(manyOptions)
  /\ chunkBudget = MaxText
  /\ Quiet

\* a parallel batch of two to MaxInv tee invocations, each with its own
\* prefix, whose children deliver two characters in all
InitPar ==
  /\ createInput = Empty
  /\ cfg = create(createInput)
  /\ parallel = TRUE
  /\ \E n \in 2..MaxInv :
       manyOptions = OptionsList([i \in 1..n |-> "string"], Empty,
                     [i \in 1..n |-> [prefix |-> <<"p", ToString(i)>>]])
  /\ opts = execOneOptions(manyOptions)
  /\ chunkBudget = 2
  /\ Quiet

\* working directories and names of the batches: the k-th has k characters
Dir(k) == <<<<"w">>, [j \in 1..k |-> "d"]>>
Name(k) == [j \in 1..k |-> "n"]

FanCommands ==
  {StringCommand(1)}
    \cup {[form |-> "list", items |-> [i \in 1..n |-> Command(f, i)]] :
            n \in 1..MaxCmds, f \in {"string", "argv"}}
FanCwds ==
  {[kind |-> "one", path |-> Dir(1)]}
    \cup {[kind |-> "list", paths |-> [k \in 1..m |-> Dir(k)]] : m \in 1..MaxCwds}
\* names: a boolean, or a list of one name or of `total` names
Names(total) ==
  {[kind |-> "true"], [kind |-> "false"]}
    \cup {[kind |-> "list", items |-> [k \in 1..len |-> Name(k)]] : len \in {1, total}}

\* a sequential fan-out many(command, cwd, names, options): one command, a
\* list of up to MaxCmds commands or a matrix of as many argv lists, over no
\* cwd, one cwd or a list of up to MaxCwds, with every kind of names
InitFan ==
  /\ createInput = Empty
  /\ cfg = create(createInput)
  /\ parallel = FALSE
  /\ \E command \in FanCommands :
       \E cwd \in Maybe("cwd", FanCwds) :
         \E f \in Maybe("fixPrefixesLength", {FALSE}) :
           LET call == [command |-> command, throwNonZero |-> TRUE] @@ cwd
           IN \E names \in Maybe("names", Names(Len(FanOut(call)))) :
                manyOptions = call @@ names @@ f
  /\ opts = execOneOptions(manyOptions)
  /\ chunkBudget = 1
  /\ Quiet

\* the prefix record k may have of its own
OwnPrefix(k) == [j \in 1..k |-> "p"]

\* a sequential many({ options: [...], ... }) with up to MaxRecs records, each
\* with or without a prefix of its own; a cwd in every record, at batch level
\* or nowhere; with or without a batch-level prefix and names
InitList ==
  /\ createInput = Empty
  /\ cfg = create(createInput)
  /\ parallel = FALSE
  /\ \E n \in 1..MaxRecs :
       \E ps \in {f \in [1..n -> UNION {Maybe("prefix", {OwnPrefix(k)}) : k \in 1..n}] :
                    \A k \in 1..n : f[k] \in Maybe("prefix", {OwnPrefix(k)})} :
         \E c \in Maybe("cwd", {Dir(2)}) :
           \E bc \in IF c = Empty THEN Maybe("cwd", {[kind |-> "one", path |-> Dir(1)]})
                      ELSE {Empty} :
             \E rp \in Maybe("prefix", {<<"r", "r", "r">>}) :
               \E names \in Maybe("names", {[kind |-> "true"],
                                            [kind |-> "list",
                                             items |-> [k \in 1..n |-> Name(k)]]}) :
                 manyOptions =
                   OptionsList([i \in 1..n |-> "string"],
                               rp @@ bc @@ names @@ [throwNonZero |-> TRUE],
                               [i \in 1..n |-> ps[i] @@ c])
  /\ opts = execOneOptions(manyOptions)
  /\ chunkBudget = 1
  /\ Quiet

\* ---------------------------------------------------------------- actions
ModeOf(i) == Effective(opts[i]).interactive

\* the synchronous head of one() for the invocations S, in index order: the
\* banner is logged and the child is spawned (lines 270-327, and the execa
\* call of the branch taken)
RECURSIVE Banners(_, _)
Banners(sink, S) ==
  IF S = {} THEN sink
  ELSE LET i == CHOOSE x \in S : \A y \in S : x <= y
       IN Banners(Log(opts[i], sink, <<BannerLine(i)>>), S \ {i})

\* a dispatcher that starts only the first invocation, also in parallel
FirstCallsOnlyFirst(par) == {1}

\* a dispatcher that starts every invocation at once, also without parallel
FirstCallsAll(par) == Inv

\* the invocations whose one() many() calls before it first suspends: all of
\* them under Promise.all(execOneOptions.map(...)), the first in the loop
FirstCalls(par) == IF par THEN Inv ELSE {1}

\* the invocations of S whose one() throws in its head, before the banner and
\* before any spawn; the error of one of them; and a set in index order
Failing(S) == {j \in S : HeadError(j) # {}}
HeadErr(j) == CHOOSE e \in HeadError(j) : TRUE
RECURSIVE InOrder(_)
InOrder(S) ==
  IF S = {} THEN <<>>
  ELSE LET i == CHOOSE x \in S : \A y \in S : x <= y
       IN <<i>> \o InOrder(S \ {i})

\* a one() that stores the policy of its call in the executor
thisAdopting(this, o) ==
  [this EXCEPT !.throwNonZero = Opt(o, "throwNonZero", this.throwNonZero)]

\* the fields of the executor after a one() with the record o: one() reads
\* them as the defaults of its destructuring (lines 271-279, 285-288) and
\* assigns none, neither before nor after its await
thisAfter(this, o) == this

\* the same after the one() of each invocation of js, in that order
RECURSIVE thisAfterAll(_, _)
thisAfterAll(this, js) ==
  IF js = <<>> THEN this
  ELSE thisAfterAll(thisAfter(this, opts[Head(js)]), Tail(js))

\* the caller calls one() for the invocations S, in index order, and awaits:
\* a one() that throws in its head returns a rejected promise, and the caller
\* is rejected with the first of those in the same turn
Calls(S) ==
  LET F == Failing(S)
  IN /\ pc' = [j \in Inv |-> IF j \in F THEN "raised"
                              ELSE IF j \in S THEN "awaiting" ELSE pc[j]]
     /\ streamOpen' = [j \in Inv |->
          IF j \in S \ F THEN [s \in Streams |-> ModeOf(j) \in Piped]
          ELSE streamOpen[j]]
     /\ child' = [j \in Inv |-> IF j \in S \ F THEN "running" ELSE child[j]]
     /\ logSink' = Banners(logSink, S \ F)
     /\ error' = [j \in F |-> HeadErr(j)] @@ error
     /\ raiseOrder' = raiseOrder \o InOrder(F)
     /\ manyPc' = IF F = {} THEN "awaiting" ELSE "raised"
     /\ manyErr' = IF F = {} THEN manyErr ELSE {HeadErr(InOrder(F)[1])}
     /\ cfg' = thisAfterAll(cfg, InOrder(S \ F))
     /\ normalized' = [j \in S \ F |-> normalizeCommand(opts[j].command)] @@ normalized

\* many(): lines 776-794 up to the first suspension
ManyCall ==
  /\ manyPc = "init"
  /\ opts = execOneOptions(manyOptions)
  /\ Calls(FirstCalls(parallel))
  /\ manyOptions' = manyOptionsAfter(manyOptions)
  /\ UNCHANGED <<createInput, oneArgs, processEnv, composed, parallel,
                 opts,
                 chunkBudget, results, res, arrived, out, err, output, buf,
                 term, settlement>>

\* manyCommand(): lines 702-735, the whole call
ManyCommandCall ==
  /\ manyPc = "init"
  /\ composed = {}
  /\ opts = execOneOptions(manyOptions)
  /\ composed' = {manyCommand(manyOptions, parallel)}
  /\ manyOptions' = manyOptionsAfter(manyOptions)
  /\ UNCHANGED <<createInput, oneArgs, processEnv, normalized, cfg, parallel,
                 opts, chunkBudget, manyPc, manyErr, results, pc, res, error,
                 child, streamOpen, arrived, out, err, output, buf, term,
                 logSink, raiseOrder, settlement>>

\* a direct call one(...args), awaited by its caller (lines 269-327)
OneCall ==
  /\ manyPc = "init"
  /\ opts = <<Normalized(oneArgs[1])>>
  /\ Calls({1})
  /\ oneArgs' = [oneArgs EXCEPT ![1] = argsAfter(@)]
  /\ UNCHANGED <<createInput, manyOptions, processEnv, composed, parallel,
                 opts,
                 chunkBudget, results, res, arrived, out, err, output, buf,
                 term, settlement>>

\* characters delivered so far, by all children
RECURSIVE Delivered(_)
Delivered(S) ==
  IF S = {} THEN 0
  ELSE LET i == CHOOSE x \in S : TRUE
       IN Len(Flatten(AllChunks(arrived[i]))) + Delivered(S \ {i})

\* a capture that keeps the text as normalized for the display
ChunkTextNormalized(chunk) == NormalizeCR(chunk)

\* const s = typeof chunk === 'string' ? chunk : chunk.toString()
ChunkText(chunk) == chunk

\* the child writes chunk on stream s. In tee mode that is a 'data' event of
\* the piped stream (lines 378-389); in silent mode the chunk goes to the
\* spawn primitive's own buffer; a child that inherited the terminal writes
\* to it by itself, and the program sees nothing of the text
ChildData(i, s, chunk) ==
  /\ child[i] = "running"
  /\ ModeOf(i) \in Piped => streamOpen[i][s]
  /\ Delivered(Inv) + Len(chunk) <= chunkBudget
  /\ arrived' = [arrived EXCEPT ![i] = Append(@, <<s, chunk>>)]
  /\ IF ModeOf(i) = "tee"
     THEN LET t == ChunkText(chunk)
          IN /\ out' = IF s = "stdout" THEN [out EXCEPT ![i] = @ \o t] ELSE out
             /\ err' = IF s = "stderr" THEN [err EXCEPT ![i] = @ \o t] ELSE err
             /\ output' = [output EXCEPT ![i] = @ \o t]
             /\ buf' = [buf EXCEPT ![i][s] = @ \o t]
             /\ term' = term \o Writes(i, s, push(Label(opts[i]), t, FALSE))
     ELSE UNCHANGED <<out, err, output, buf, term>>
  /\ UNCHANGED <<createInput, manyOptions, oneArgs, processEnv, composed, normalized, cfg,
                 parallel,
                 opts, chunkBudget, manyPc, manyErr,
                 results, pc, res, error, child, streamOpen, logSink, raiseOrder,
                 settlement>>

\* the 'end' and then the 'close' event of a piped stream (lines 390-393):
\* each calls end(), that is push('', true)
StreamEnd(i, s) ==
  /\ child[i] = "running"
  /\ streamOpen[i][s]
  /\ streamOpen' = [streamOpen EXCEPT ![i][s] = FALSE]
  /\ term' = IF ModeOf(i) = "tee"
             THEN term \o Writes(i, s, push(Label(opts[i]), <<>>, TRUE))
                       \o Writes(i, s, push(Label(opts[i]), <<>>, TRUE))
             ELSE term
  /\ UNCHANGED <<createInput, manyOptions, oneArgs, processEnv, composed, normalized, cfg,
                 parallel,
                 opts, chunkBudget, manyPc, manyErr,
                 results, pc, res, error, child, arrived, out, err, output, buf,
                 logSink, raiseOrder, settlement>>

\* what many() does when the one() of invocation i settles with o: its next
\* state, the error it rejects with, its results, the invocations it starts
ManyStep(mpc, merr, rs, start) ==
  [manyPc |-> mpc, manyErr |-> merr, results |-> rs, start |-> start]

\* a Promise.all that rejects with the latest rejection instead of the first
PromiseAllLastWins(i, o) ==
  IF manyPc = "init" THEN ManyStep(manyPc, manyErr, results, {})
  ELSE IF o.thrown # {} THEN ManyStep("raised", o.thrown, results, {})
  ELSE IF manyPc = "awaiting" /\ \A j \in Inv \ {i} : pc[j] = "returned"
       THEN ManyStep("returned", manyErr,
                     [j \in Inv |-> IF j = i THEN o.result ELSE res[j]], {})
       ELSE ManyStep(manyPc, manyErr, results, {})

\* a Promise.all that is fulfilled with the values in the order in which the
\* promises were fulfilled
PromiseAllAsFulfilled(i, o) ==
  IF manyPc # "awaiting" THEN ManyStep(manyPc, manyErr, results, {})
  ELSE IF o.thrown # {} THEN ManyStep("raised", o.thrown, results, {})
  ELSE IF \A j \in Inv \ {i} : pc[j] = "returned"
       THEN ManyStep("returned", manyErr, Append(results, o.result), {})
       ELSE ManyStep(manyPc, manyErr, Append(results, o.result), {})

\* lines 789-791: await Promise.all(execOneOptions.map(...)). It rejects with
\* the first rejection, and is fulfilled with all values, in index order,
\* when the last promise is fulfilled
PromiseAll(i, o) ==
  IF manyPc # "awaiting" THEN ManyStep(manyPc, manyErr, results, {})
  ELSE IF o.thrown # {} THEN ManyStep("raised", o.thrown, results, {})
  ELSE IF \A j \in Inv \ {i} : pc[j] = "returned"
       THEN ManyStep("returned", manyErr,
                     [j \in Inv |-> IF j = i THEN o.result ELSE res[j]], {})
       ELSE ManyStep(manyPc, manyErr, results, {})

\* a loop that swallows the failure of an invocation and goes on
LoopNotFailFast(i, o) ==
  LET rs == IF o.thrown = {} THEN Append(results, o.result) ELSE results
  IN IF i < N THEN ManyStep("awaiting", manyErr, rs, {i + 1})
     ELSE IF o.thrown # {} THEN ManyStep("raised", o.thrown, rs, {})
          ELSE ManyStep("returned", manyErr, rs, {})

\* a loop that stops at the first result with a non-zero code
LoopStopsOnNonZero(i, o) ==
  IF o.thrown # {} THEN ManyStep("raised", o.thrown, results, {})
  ELSE IF i < N /\ o.result.code = 0
       THEN ManyStep("awaiting", manyErr, Append(results, o.result), {i + 1})
       ELSE ManyStep("returned", manyErr, Append(results, o.result), {})

\* a loop that puts each result at the front of the array
LoopUnshifts(i, o) ==
  IF o.thrown # {} THEN ManyStep("raised", o.thrown, results, {})
  ELSE IF i < N THEN ManyStep("awaiting", manyErr, <<o.result>> \o results, {i + 1})
       ELSE ManyStep("returned", manyErr, <<o.result>> \o results, {})

\* lines 792-796: for (const options of execOneOptions)
\*                  results.push(await this.one(options))
Loop(i, o) ==
  IF o.thrown # {} THEN ManyStep("raised", o.thrown, results, {})
  ELSE IF i < N THEN ManyStep("awaiting", manyErr, Append(results, o.result), {i + 1})
       ELSE ManyStep("returned", manyErr, Append(results, o.result), {})

\* the promise of child i settles with st: one() resumes after its await and
\* settles, and many() resumes in turn
ChildExit(i, st) ==
  /\ child[i] = "running"
  /\ \A s \in Streams : ~streamOpen[i][s]
  /\ Has(st, "rejected") => arrived[i] = <<>>
  /\ st = TimedOut => Has(opts[i], "timeoutMs")
  /\ LET o == OneSettles(i, st)
         raised == o.thrown # {}
         m == IF parallel THEN PromiseAll(i, o) ELSE Loop(i, o)
         F == Failing(m.start)
     IN /\ pc' = [j \in Inv |->
                    IF j = i THEN (IF raised THEN "raised" ELSE "returned")
                    ELSE IF j \in F THEN "raised"
                    ELSE IF j \in m.start THEN "awaiting" ELSE pc[j]]
        /\ child' = [j \in Inv |->
                       IF j = i THEN "settled"
                       ELSE IF j \in m.start \ F THEN "running" ELSE child[j]]
        /\ streamOpen' = [j \in Inv |->
                            IF j \in m.start \ F
                            THEN [s \in Streams |-> ModeOf(j) \in Piped]
                            ELSE streamOpen[j]]
        /\ res' = IF raised THEN res ELSE (i :> o.result) @@ res
        /\ error' = [j \in F |-> HeadErr(j)]
                      @@ (IF raised THEN (i :> CHOOSE e \in o.thrown : TRUE) @@ error
                          ELSE error)
        /\ raiseOrder' = (IF raised THEN Append(raiseOrder, i) ELSE raiseOrder)
                           \o InOrder(F)
        /\ settlement' = (i :> st) @@ settlement
        /\ logSink' = Banners(Log(opts[i], logSink, o.lines), m.start \ F)
        /\ manyPc' = IF F = {} THEN m.manyPc ELSE "raised"
        /\ manyErr' = IF F = {} THEN m.manyErr ELSE {HeadErr(InOrder(F)[1])}
        /\ cfg' = thisAfterAll(cfg, <<i>> \o InOrder(m.start \ F))
        /\ normalized' = [j \in m.start \ F |-> normalizeCommand(opts[j].command)]
                            @@ normalized
        /\ results' = m.results
  /\ UNCHANGED <<createInput, manyOptions, oneArgs, processEnv, composed, parallel,
                 opts,
                 chunkBudget, arrived, out, err, output, buf, term>>

Next ==
  \/ ManyCall
  \/ \E i \in Inv, s \in Streams :
       \E chunk \in ChunksWithin[chunkBudget - Delivered(Inv)] : ChildData(i, s, chunk)
  \/ \E i \in Inv, s \in Streams : StreamEnd(i, s)
  \/ \E i \in Inv, st \in Settlements : ChildExit(i, st)

\* the same with a direct call of one() in the place of many()
NextOne ==
  \/ OneCall
  \/ \E i \in Inv, s \in Streams :
       \E chunk \in ChunksWithin[chunkBudget - Delivered(Inv)] : ChildData(i, s, chunk)
  \/ \E i \in Inv, s \in Streams : StreamEnd(i, s)
  \/ \E i \in Inv, st \in Settlements : ChildExit(i, st)

Spec == Init /\ [][Next]_vars
SpecOne == InitOne /\ [][Next]_vars
SpecTee == InitTee /\ [][Next]_vars
SpecSilent == InitSilent /\ [][Next]_vars
SpecPar == InitPar /\ [][Next]_vars
SpecFan == InitFan /\ [][Next]_vars
SpecList == InitList /\ [][Next]_vars

\* the arguments of a direct call one(...args): in the first place a command
\* string, an argv list, an options object or undefined; in the second a
\* directory string, an options object, undefined or an argv list; in the
\* third an options object, undefined or a string
OptionsArgs(throwNonZero) ==
  {OptionsArg(c @@ d @@ t) :
     c \in Maybe("command", {StringCommand(2)}),
     d \in Maybe("cwd", {Dir(2)}),
     t \in Maybe("throwNonZero", {throwNonZero})}
FirstArgs == {StringCommand(1), ArgvCommand(1), Undefined} \cup OptionsArgs(TRUE)
SecondArgs == {PathArg(Dir(1)), ArgvCommand(1), Undefined} \cup OptionsArgs(FALSE)
ThirdArgs == {PathArg(Dir(1)), Undefined} \cup OptionsArgs(TRUE)
ArgLists ==
  {<<>>} \cup {<<a>> : a \in FirstArgs}
    \cup {<<a, b>> : a \in FirstArgs, b \in SecondArgs}
    \cup {<<a, b, c>> : a \in FirstArgs, b \in SecondArgs, c \in ThirdArgs}

\* a direct call of one() with up to three arguments
InitArgs ==
  /\ createInput = Empty
  /\ cfg = create(createInput)
  /\ parallel = FALSE
  /\ manyOptions = Empty
  /\ \E args \in ArgLists : oneArgs = <<args>>
  /\ processEnv = InheritedEnv
  /\ opts = <<Normalized(oneArgs[1])>>
  /\ chunkBudget = 1
  /\ Idle

\* a batch of records one of which has no command, sequential or parallel
InitMissing ==
  /\ createInput = Empty
  /\ cfg = create(createInput)
  /\ parallel \in BOOLEAN
  /\ \E n \in 2..MaxInv :
       \E k \in 1..n :
         \E own \in [1..n -> Maybe("cwd", {Dir(1)})] :
           manyOptions =
             [options |-> [i \in 1..n |->
                IF i = k THEN own[i] ELSE [command |-> StringCommand(i)] @@ own[i]]]
  /\ opts = execOneOptions(manyOptions)
  /\ chunkBudget = 1
  /\ Quiet

SpecArgs == InitArgs /\ [][NextOne]_vars

\* one record under every color policy and with or without an env overlay, of
\* the executor and of the call, in a process whose environment sets no color
\* variable, forbids colors or sets one of the forcing variables its own way
ProcessEnvs ==
  {InheritedEnv, [NO_COLOR |-> "1"] @@ InheritedEnv, [FORCE_COLOR |-> "0"] @@ InheritedEnv}
InitEnv ==
  /\ \E c \in Maybe("colors", {"true", "false"}) :
       \E e \in Maybe("env", {[CLICOLOR |-> "0", HOME |-> "exec"]}) :
         createInput = c @@ e
  /\ cfg = create(createInput)
  /\ parallel = FALSE
  /\ \E c \in Maybe("colors", {"true", "false"}) :
       \E e \in Maybe("env", {[HOME |-> "call", COLORTERM |-> "no"]}) :
         manyOptions = OptionsList(<<"string">>, Empty, <<c @@ e>>)
  /\ opts = execOneOptions(manyOptions)
  /\ chunkBudget = 1
  /\ oneArgs = [i \in Inv |-> <<OptionsArg(opts[i])>>]
  /\ processEnv \in ProcessEnvs
  /\ Idle

\* one record with a timeout, in every mode, both command forms, every
\* non-zero-exit policy
InitTimeout ==
  /\ createInput = Empty
  /\ cfg = create(createInput)
  /\ parallel = FALSE
  /\ \E form \in {"string", "argv"} :
       \E m \in Maybe("interactive", Modes) :
         \E t \in Maybe("throwNonZero", BOOLEAN) :
           manyOptions = OptionsList(<<form>>, Empty,
                                     <<m @@ t @@ [timeoutMs |-> 100]>>)
  /\ opts = execOneOptions(manyOptions)
  /\ chunkBudget = 1
  /\ Quiet

\* a batch of two or more records, sequential or parallel, of string or of
\* argv commands, each record in a directory of its own or all of them in
\* the process's
InitBatch ==
  /\ createInput = Empty
  /\ cfg = create(createInput)
  /\ parallel \in BOOLEAN
  /\ \E n \in 2..MaxInv :
       \E form \in {"string", "argv"} :
         \E own \in {[i \in 1..n |-> [cwd |-> Dir(i)]], [i \in 1..n |-> Empty]} :
           manyOptions = OptionsList([i \in 1..n |-> form], Empty, own)
  /\ opts = execOneOptions(manyOptions)
  /\ chunkBudget = 1
  /\ Quiet

\* a call manyCommand(command, cwd, names, options), sequential or parallel:
\* the batches of the fan-out, under every interaction mode or none
InitCommand ==
  /\ createInput = Empty
  /\ cfg = create(createInput)
  /\ parallel \in BOOLEAN
  /\ \E command \in FanCommands :
       \E cwd \in Maybe("cwd", FanCwds) :
         \E m \in Maybe("interactive", Modes) :
           LET call == [command |-> command] @@ cwd @@ m
           IN \E names \in Maybe("names", Names(Len(FanOut(call)))) :
                manyOptions = call @@ names
  /\ opts = execOneOptions(manyOptions)
  /\ chunkBudget = 1
  /\ Quiet

\* the characters of the arguments: a letter, a space, the two quotes, the
\* backslash, the dollar, the backtick and the ampersand; an argument is one
\* of them, or a dollar followed by one of them
Characters == {"a", " ", "'", "\"", "\\", "$", "BQ", "&"}
ArgumentTexts == {<<x>> : x \in Characters} \cup {<<"$", y>> : y \in Characters}
\* the commands `e <argument>` as a string, and [e, <argument>] as an argv list
ComposedCommands ==
  {StringForm(<<"e", " ">> \o t) : t \in ArgumentTexts}
    \cup {ArgvForm(<<<<"e">>, t>>) : t \in ArgumentTexts}
\* a string and an array prefix
Prefixes == {StringForm(<<"npx">>), ArgvForm(<<<<"npx">>, <<"-y">>>>)}
\* wrappers: the escaped placeholder in double quotes, the raw placeholder
\* with text on both sides, and no placeholder
Wrappers ==
  { <<"sh", " ", "-c", " ", "\"", PlaceholderEscaped, "\"">>,
    <<"sh", " ", "-c", " ", "'", Placeholder, "'", " ", "x">>,
    <<"time">> }

\* a direct call one({ command }) on an executor with or without a command
\* prefix and with or without a command wrapper
InitCompose ==
  /\ \E p \in Maybe("commandPrefix", Prefixes) :
       \E w \in Maybe("commandWrapper", Wrappers) :
         createInput = p @@ w
  /\ cfg = create(createInput)
  /\ parallel = FALSE
  /\ manyOptions = Empty
  /\ \E c \in ComposedCommands : oneArgs = <<<<OptionsArg([command |-> c])>>>>
  /\ processEnv = InheritedEnv
  /\ opts = <<Normalized(oneArgs[1])>>
  /\ chunkBudget = 1
  /\ Idle

\* a fan-out of two commands, as strings or as argv lists, in one directory,
\* without names, with names: true or with a list of two names; or a list of
\* two records, each with a prefix and a directory of its own; sequential or
\* parallel, in tee mode or on the terminal: the arguments are given to
\* manyCommand() and to many()
InitRender ==
  /\ createInput = Empty
  /\ cfg = create(createInput)
  /\ parallel \in BOOLEAN
  /\ \E f \in {"string", "argv"} :
       \E m \in Maybe("interactive", {"true"}) :
         \E names \in Maybe("names", {[kind |-> "true"],
                                      [kind |-> "list", items |-> <<Name(1), Name(2)>>]}) :
           \/ manyOptions =
                [command |-> [form |-> "list", items |-> [i \in 1..2 |-> Command(f, i)]],
                 cwd |-> [kind |-> "one", path |-> Dir(1)]]
                  @@ m @@ names
           \/ /\ names = Empty
              /\ manyOptions =
                   OptionsList(<<f, f>>, m,
                               [i \in 1..2 |-> [prefix |-> OwnPrefix(i), cwd |-> Dir(i)]])
  /\ opts = execOneOptions(manyOptions)
  /\ chunkBudget = 1
  /\ Quiet

\* manyCommand() and many() are called with the same arguments
NextRender == ManyCommandCall \/ Next

SpecRender == InitRender /\ [][NextRender]_vars
SpecMissing == InitMissing /\ [][Next]_vars
SpecCompose == InitCompose /\ [][NextOne]_vars
SpecCommand == InitCommand /\ [][ManyCommandCall]_vars
SpecBatch == InitBatch /\ [][Next]_vars
SpecTimeout == InitTimeout /\ [][Next]_vars
SpecEnv == InitEnv /\ [][Next]_vars

\* ================================================================ claims
Settled(i) == pc[i] \in {"returned", "raised"}
ExitedNonZero(i) ==
  i \in DOMAIN settlement /\ Has(settlement[i], "exitCode") /\ settlement[i].exitCode # 0
FailLines(i) == {k \in 1..Len(logSink) : logSink[k].inv = i /\ logSink[k].glyph = "fail"}

\* C1: in a sequential many() the invocations run in expansion order, one at
\* a time: an invocation is spawned only when every earlier one has exited and
\* returned its result; when invocation i raises, no later invocation is ever
\* spawned and many() raises the error of invocation i.
C1_SequentialFailFast ==
  ~parallel =>
    /\ \A j \in Inv : child[j] # "none" =>
         \A i \in 1..(j - 1) : child[i] = "settled" /\ pc[i] = "returned" /\ i \in DOMAIN res
    /\ Cardinality({i \in Inv : child[i] = "running"}) <= 1
    /\ \A i \in Inv : pc[i] = "raised" =>
         /\ \A j \in (i + 1)..N : child[j] = "none" /\ pc[j] = "idle"
         /\ manyPc = "raised"
         /\ manyErr = {error[i]}

\* a batch of two or more whose first invocation raised: many() has raised
\* and the second invocation was never spawned
C1_Witness ==
  /\ ~parallel
  /\ N >= 2
  /\ pc[1] = "raised"
  /\ child[2] = "none"
  /\ manyPc = "raised"

\* C2 (as claimed): a parallel many() neither returns nor raises while an
\* invocation of the batch is still running.
C2_ParallelSettlesLast ==
  (parallel /\ manyPc \in {"returned", "raised"}) => \A i \in Inv : Settled(i)

\* C3: in a parallel batch every invocation is spawned, and a running child
\* stops running only by its own settlement (exit, timeout or rejection of
\* its own promise), whatever happens to its siblings.
C3_NoSiblingCancelled ==
  /\ [](parallel /\ manyPc # "init" => \A i \in Inv : child[i] # "none")
  /\ [][parallel =>
          \A i \in Inv : child[i] = "running" =>
            \/ child'[i] = "running" /\ pc'[i] = "awaiting"
            \/ /\ child'[i] = "settled"
               /\ i \in DOMAIN settlement'
               /\ i \notin DOMAIN settlement
               /\ \A j \in Inv \ {i} : child'[j] = child[j]]_vars

\* one invocation has raised, many() has raised, a sibling is still running
C3_Witness ==
  /\ parallel
  /\ \E i, j \in Inv : pc[i] = "raised" /\ child[j] = "running" /\ manyPc = "raised"

\* C4: a parallel many() has raised exactly when some invocation has raised;
\* the error it raised is that of the invocation that raised first in time;
\* when every invocation has returned it has returned one result per
\* invocation.
C4_ParallelFirstFailure ==
  (parallel /\ manyPc # "init") =>
    /\ manyPc = "raised" <=> \E i \in Inv : pc[i] = "raised"
    /\ manyPc = "raised" => manyErr = {error[raiseOrder[1]]}
    /\ manyPc = "returned" <=> \A i \in Inv : pc[i] = "returned"
    /\ manyPc = "returned" => Len(results) = N

\* two invocations raised, the later record first
C4_Witness ==
  /\ parallel
  /\ Len(raiseOrder) >= 2
  /\ raiseOrder[1] > raiseOrder[2]
  /\ error[raiseOrder[1]] # error[raiseOrder[2]]
  /\ manyPc = "raised"

C7_DefaultRaises ==
  \A i \in Inv :
    (createInput = Empty /\ ~Has(opts[i], "throwNonZero") /\ ExitedNonZero(i))
      => pc[i] = "raised"

\* C8 (as claimed): in every mode, when the child exits non-zero, throwNonZero
\* is false and logging is not silenced, a failure line is in the log sink
\* when one() has returned.
C8_NonZeroNeverSilent ==
  \A i \in Inv :
    (/\ pc[i] = "returned"
     /\ ExitedNonZero(i)
     /\ ~Effective(opts[i]).throwNonZero
     /\ ~Effective(opts[i]).silent)
      => FailLines(i) # {}

\* the error one() is to raise for the settlement of its child: the
\* primitive's own rejection, or CommandFailed with the exit code
IsTheFailure(i, e) ==
  IF Has(settlement[i], "rejected")
  THEN e = SpawnFailure(i, settlement[i])
  ELSE /\ Has(e.message, "failed")
       /\ e.message.code = CodeText(settlement[i])
       /\ e.message.cause = CauseText(settlement[i])

\* C9 (as claimed): every failure one() raises is in the log sink as a
\* failure line when it reaches the caller, and the error raised is the
\* error that was thrown, unchanged.
C9_FailureLogged ==
  \A i \in Inv :
    pc[i] = "raised" =>
      /\ \E k \in FailLines(i) : logSink[k].text = error[i].message
      /\ IsTheFailure(i, error[i])

\* C9 (amended): the same, the failure line being written unless logging is
\* silenced (silent: true), in which case nothing is written.
C9_FailureLoggedUnlessSilent ==
  \A i \in Inv :
    pc[i] = "raised" =>
      /\ ~Effective(opts[i]).silent =>
           \E k \in FailLines(i) : logSink[k].text = error[i].message
      /\ Effective(opts[i]).silent => FailLines(i) = {}
      /\ IsTheFailure(i, error[i])

\* a rejection of the spawn primitive was logged and raised
C9_Witness ==
  \E i \in Inv :
    /\ pc[i] = "raised"
    /\ Has(settlement[i], "rejected")
    /\ ~Effective(opts[i]).silent
    /\ \E k \in FailLines(i) : logSink[k].text = error[i].message

\* C10: in tee mode the captured stdout is the concatenation of the stdout
\* chunks in arrival order, the captured stderr that of the stderr chunks,
\* and the captured output that of all chunks in their global arrival order,
\* with neither the label nor the CR normalization of the display applied;
\* the result carries these texts.
C10_TeeCaptureExact ==
  \A i \in Inv :
    ModeOf(i) = "tee" =>
      /\ out[i] = Flatten(ChunksOf(arrived[i], "stdout"))
      /\ err[i] = Flatten(ChunksOf(arrived[i], "stderr"))
      /\ output[i] = Flatten(AllChunks(arrived[i]))
      /\ i \in DOMAIN res =>
           /\ res[i].stdout = Flatten(ChunksOf(arrived[i], "stdout"))
           /\ res[i].stderr = Flatten(ChunksOf(arrived[i], "stderr"))
           /\ res[i].output = Flatten(AllChunks(arrived[i]))

\* a labelled tee invocation returned after stderr, stdout and stderr chunks,
\* one of them with a carriage return that the display turned into a break
C10_Witness ==
  \E i \in DOMAIN res :
    /\ ModeOf(i) = "tee"
    /\ Label(opts[i]) # <<>>
    /\ Len(arrived[i]) = 3
    /\ arrived[i][1] = <<"stderr", <<"a">>>>
    /\ arrived[i][2] = <<"stdout", <<"CR">>>>
    /\ arrived[i][3][1] = "stderr"
    /\ res[i].output = <<"a", "CR", "a">>
    /\ \E k \in 1..Len(term) : term[k].text = Label(opts[i]) \o <<"LF">>

\* C11: in silent mode the result's stdout is exactly the text the child wrote
\* on stdout, a trailing newline included, its stderr exactly the text written
\* on stderr, and its output the concatenation of all chunks in their arrival
\* order with nothing inserted between them.
C11_SilentCaptureExact ==
  \A i \in DOMAIN res :
    ModeOf(i) = "false" =>
      /\ res[i].stdout = Flatten(ChunksOf(arrived[i], "stdout"))
      /\ res[i].stderr = Flatten(ChunksOf(arrived[i], "stderr"))
      /\ res[i].output = Flatten(AllChunks(arrived[i]))

\* C12: a result returned by an invocation whose child inherited the terminal
\* (interactive true or 'real') has empty stdout, stderr and output, whatever
\* the child wrote.
C12_InheritCapturesNothing ==
  \A i \in DOMAIN res :
    ModeOf(i) \in {"true", "real"} =>
      /\ res[i].stdout = <<>>
      /\ res[i].stderr = <<>>
      /\ res[i].output = <<>>

\* an argv command that inherited the terminal wrote to it and returned
C12_Witness ==
  \E i \in DOMAIN res :
    /\ ModeOf(i) = "true"
    /\ opts[i].command.form = "argv"
    /\ Flatten(AllChunks(arrived[i])) = <<"a">>
    /\ res[i].stdout = <<>>
    /\ res[i].output = <<>>

\* the text invocation i's child has delivered on stream s so far, and the
\* texts its tee writer for s has written to the terminal so far
Content(i, s) == Flatten(ChunksOf(arrived[i], s))
Written(i, s) ==
  LET mine == SelectSeq(term, LAMBDA w : w.inv = i /\ w.dest = s)
  IN [k \in 1..Len(mine) |-> mine[k].text]
\* the line of a write: its text without the label and the closing newline
LineOf(i, text) == SubSeq(text, Len(Label(opts[i])) + 1, Len(text) - 1)
NonBreaks(t) == SelectSeq(t, LAMBDA c : c \notin {"CR", "LF"})

\* C13 (as claimed): the tee writer carries the trailing partial line of a
\* chunk over to the next chunk of the same stream, so whatever the chunking
\* the writes so far are the complete lines of the stream's content, each
\* one whole in one prefixed write (stated for content without carriage
\* returns, whose handling is C15's).
C13_CarryOver ==
  \A i \in Inv : \A s \in Streams :
    (ModeOf(i) = "tee" /\ "CR" \notin {Content(i, s)[k] : k \in 1..Len(Content(i, s))})
      => Written(i, s) = EmitLines(Label(opts[i]), Content(i, s), FALSE)

\* C14 (as claimed): once a stream of a tee invocation has ended, every
\* character the child delivered on it that is not a line break has appeared
\* in a terminal write, the partial line retained at the end included.
C14_FlushAtEnd ==
  \A i \in Inv : \A s \in Streams :
    (ModeOf(i) = "tee" /\ child[i] # "none" /\ ~streamOpen[i][s])
      => NonBreaks(Flatten([k \in 1..Len(Written(i, s)) |-> LineOf(i, Written(i, s)[k])]))
           = NonBreaks(Content(i, s))

\* C15 (as claimed): the lines written for a stream's content do not depend
\* on how the content is cut into chunks: they are the lines the writer
\* issues when the same content arrives as one chunk.
C15_ChunkingIrrelevant ==
  \A i \in Inv : \A s \in Streams :
    (ModeOf(i) = "tee" /\ child[i] # "none" /\ ~streamOpen[i][s])
      => Written(i, s) = push(Label(opts[i]), Content(i, s), FALSE)
                           \o push(Label(opts[i]), <<>>, TRUE)

\* C16: every write a tee writer issues is the label of its invocation, one
\* line taken from one chunk of that invocation's stream, and a newline: it
\* ends with a newline, has no other newline, and carries no text of another
\* invocation, however the chunk events of concurrent invocations interleave.
C16_LineAtomic ==
  \A k \in 1..Len(term) :
    LET w == term[k]
        lbl == Label(opts[w.inv])
        line == LineOf(w.inv, w.text)
    IN /\ ModeOf(w.inv) = "tee"
       /\ Len(w.text) >= Len(lbl) + 1
       /\ SubSeq(w.text, 1, Len(lbl)) = lbl
       /\ w.text[Len(w.text)] = "LF"
       /\ \A c \in 1..Len(line) : line[c] # "LF"
       /\ \E e \in 1..Len(arrived[w.inv]) :
            /\ arrived[w.inv][e][1] = w.dest
            /\ LET t == NormalizeCR(arrived[w.inv][e][2])
               IN \E a \in 1..Len(t) + 1 : SubSeq(t, a, a + Len(line) - 1) = line

\* two invocations are running and their writers have written in turn, the
\* second invocation first
C16_Witness ==
  /\ Len(term) = 2
  /\ term[1].inv = 2
  /\ term[2].inv = 1
  /\ term[1].text = Label(opts[2]) \o <<"LF">>
  /\ term[2].text = Label(opts[1]) \o <<"LF">>
  /\ Label(opts[1]) # Label(opts[2])
  /\ child[1] = "running"
  /\ child[2] = "running"

\* the records before the alignment of their prefixes, the prefix of a record
\* as a set (empty when the record has none), and the two kinds of call
Derived == manyOptionsToOneOptions(manyOptions)
PrefixOf(o) == IF Has(o, "prefix") THEN {o.prefix} ELSE {}
IsFanOut == ~Has(manyOptions, "options")
IsList == Has(manyOptions, "options")
Called == manyPc # "init"

\* C17: without an explicit list, N commands and M cwds give exactly N*M
\* records in cwd-major order, record k (from 0) running command k mod N in
\* cwd k div N; a single string command gives one record per cwd, in order.
C17_FanOutCwdMajor ==
  (IsFanOut /\ Called) =>
    LET cwds == Cwds(manyOptions)
        M == Len(cwds)
    IN IF IsString(manyOptions.command)
       THEN /\ Len(opts) = M
            /\ \A k \in 0..(M - 1) :
                 /\ opts[k + 1].command = manyOptions.command
                 /\ opts[k + 1].cwd = cwds[k + 1]
       ELSE LET commands == manyOptions.command.items
                K == Len(commands)
            IN /\ Len(opts) = K * M
               /\ \A k \in 0..(K * M - 1) :
                    /\ opts[k + 1].command = commands[(k % K) + 1]
                    /\ opts[k + 1].cwd = cwds[(k \div K) + 1]

\* two commands over two cwds ran to the end, four invocations in cwd-major
\* order
C17_Witness ==
  /\ IsFanOut
  /\ manyPc = "returned"
  /\ Len(results) = 4
  /\ ~IsString(manyOptions.command)
  /\ Len(manyOptions.command.items) = 2
  /\ opts[2].command = manyOptions.command.items[2]
  /\ opts[2].cwd = Dir(1)
  /\ opts[3].command = manyOptions.command.items[1]
  /\ opts[3].cwd = Dir(2)

\* C18 (as claimed): in a fan-out the prefix of combination k is names[k]
\* when names is a list; when names is true it is the basename of the cwd
\* alone if that cwd has exactly one command (a single string or a list of
\* one) and basename.commandIndex otherwise; without names there is none.
C18_FanOutPrefix ==
  (IsFanOut /\ Called) =>
    \A k \in 0..(Len(Derived) - 1) :
      LET perCwd == IF IsString(manyOptions.command) THEN 1
                    ELSE Len(manyOptions.command.items)
          base == basename(Derived[k + 1].cwd)
      IN PrefixOf(Derived[k + 1]) =
           IF ~Has(manyOptions, "names") THEN {}
           ELSE IF IsArray(manyOptions.names)
                THEN IF k + 1 <= Len(manyOptions.names.items)
                     THEN {manyOptions.names.items[k + 1]} ELSE {}
                ELSE IF manyOptions.names.kind # "true" THEN {}
                     ELSE IF perCwd = 1 THEN {base}
                          ELSE {base \o <<".", ToString(k % perCwd)>>}

\* what C19 says of the prefix of record i (from 1) of an explicit list: the
\* record's own, else the batch-level one, else names[i] of a list, else the
\* basename of the cwd the record runs in when names is true, else none
C19_Prefix(i) ==
  LET own == manyOptions.options[i]
  IN IF Has(own, "prefix") THEN {own.prefix}
     ELSE IF Has(manyOptions, "prefix") THEN {manyOptions.prefix}
     ELSE IF ~Has(manyOptions, "names") THEN {}
     ELSE IF IsArray(manyOptions.names)
          THEN IF i <= Len(manyOptions.names.items)
               THEN {manyOptions.names.items[i]} ELSE {}
          ELSE IF manyOptions.names.kind = "true" THEN {basename(Cwd(Derived[i]))}
               ELSE {}

\* the shared fields: those of the batch other than the ones that describe
\* the batch itself, and other than the prefix, which has its own rule
Shared == DOMAIN manyOptions \ {"command", "cwd", "names", "options", "prefix"}

\* what C19 says apart from the cwd: the records are those of the list, in
\* order, each with its own command and fields, a shared field it omits
\* taken from the batch, and the prefix of C19_Prefix
C19_RecordsAsGiven ==
  /\ Len(opts) = Len(manyOptions.options)
  /\ \A i \in 1..Len(Derived) :
       LET own == manyOptions.options[i]
       IN /\ Derived[i].command = own.command
          /\ \A f \in DOMAIN own \ {"prefix"} : Derived[i][f] = own[f]
          /\ \A f \in Shared \ DOMAIN own :
               Has(Derived[i], f) /\ Derived[i][f] = manyOptions[f]
          /\ PrefixOf(Derived[i]) = C19_Prefix(i)

\* C19 (as claimed): with an explicit list many() dispatches exactly those
\* records in list order, every field a record omits takes the batch-level
\* value, the cwd included, and the prefix follows C19_Prefix.
C19_ListInherits ==
  (IsList /\ Called) =>
    /\ C19_RecordsAsGiven
    /\ \A i \in 1..Len(Derived) :
         (~Has(manyOptions.options[i], "cwd") /\ Has(manyOptions, "cwd"))
           => (Has(Derived[i], "cwd") /\ Derived[i].cwd = manyOptions.cwd.path)

\* C19 (amended): as claimed for every shared executor option and for the
\* prefix, but the batch-level cwd is not inherited: a record without a cwd
\* of its own is dispatched without one and runs in process.cwd().
C19_ListInheritsButCwd ==
  (IsList /\ Called) =>
    /\ C19_RecordsAsGiven
    /\ \A i \in 1..Len(Derived) :
         ~Has(manyOptions.options[i], "cwd")
           => (~Has(Derived[i], "cwd") /\ Cwd(opts[i]) = ProcessCwd)

\* a list of two records ran to the end under a batch with a cwd and names
\* true: the first record kept its own prefix, the second, with neither a
\* prefix nor a cwd, got the basename of process.cwd()
C19_Witness ==
  /\ IsList
  /\ manyPc = "returned"
  /\ Len(results) = 2
  /\ Has(manyOptions, "cwd")
  /\ Has(manyOptions, "names") /\ manyOptions.names.kind = "true"
  /\ ~Has(manyOptions, "prefix")
  /\ PrefixOf(manyOptions.options[1]) = {OwnPrefix(1)}
  /\ PrefixOf(manyOptions.options[2]) = {}
  /\ PrefixOf(Derived[1]) = {OwnPrefix(1)}
  /\ PrefixOf(Derived[2]) = {basename(ProcessCwd)}
  /\ opts[2].throwNonZero

\* C20 (as claimed): with fixPrefixesLength in force and a non-empty prefix
\* somewhere in the batch, every prefix of the batch is, after alignment, its
\* original followed by spaces up to the length of the longest original.
C20_PrefixesAligned ==
  LET fix == Opt(manyOptions, "fixPrefixesLength", cfg.fixPrefixesLength)
      longest == longestPrefix(Derived)
  IN (Called /\ fix /\ \E k \in 1..Len(Derived) : PrefixOf(Derived[k]) \notin {{}, {<<>>}})
       => \A k \in 1..Len(opts) :
            Has(opts[k], "prefix") =>
              /\ Len(opts[k].prefix) = longest
              /\ SubSeq(opts[k].prefix, 1, Len(Derived[k].prefix)) = Derived[k].prefix
              /\ \A c \in (Len(Derived[k].prefix) + 1)..longest : opts[k].prefix[c] = " "

\* ------------------------------------------------------------- the normalizer
\* the arguments of the direct call, whether the normalizer accepted them, and
\* whether the call has been made
Args == oneArgs[1]
Accepted == Has(normalizeOneOptions(Args), "options")
OneCalled == manyOptions = Empty /\ manyPc # "init"
\* the places of the options objects among the arguments that carry field f
Carrying(f) == {p \in 1..Len(Args) : isOptions(Args[p]) /\ Has(Args[p].fields, f)}
Last(P) == CHOOSE p \in P : \A q \in P : q <= p

\* C21 (as claimed): normalizing (command, options) or (command, cwd, options)
\* yields a record whose command is the positional command and whose cwd is
\* the positional cwd, even when the options object has its own command or
\* cwd; for every other key the last object that carries it decides.
C21_PositionalWins ==
  (OneCalled /\ Accepted) =>
    /\ (/\ Len(Args) \in {2, 3}
        /\ isString(Args[1])
        /\ isOptions(Args[Len(Args)])
        /\ Len(Args) = 3 => isString(Args[2]))
         => /\ Has(opts[1], "command") /\ opts[1].command = Args[1]
            /\ Len(Args) = 3 => Has(opts[1], "cwd") /\ opts[1].cwd = Args[2].path
    /\ \A f \in {"throwNonZero"} :
         IF Carrying(f) = {} THEN ~Has(opts[1], f)
         ELSE Has(opts[1], f) /\ opts[1][f] = Args[Last(Carrying(f))].fields[f]

\* C22 (as claimed): when a record of a batch has no command, many() fails
\* with the normalizer's InvalidArgument and no process has been spawned, not
\* even for the earlier records.
C22_NothingSpawned ==
  (IsList /\ Called /\ \E j \in Inv : ~Has(opts[j], "command")) =>
    /\ manyPc = "raised"
    /\ \A e \in manyErr : Has(e.message, "invalid")
    /\ \A i \in Inv : child[i] = "none"

\* C23 (as claimed): (argv), (argv, cwd), (argv, options) and
\* (argv, cwd, options) each yield a record whose command is that argv list.
C23_ArgvAccepted ==
  (/\ OneCalled
   /\ Len(Args) >= 1
   /\ Args[1].form = "argv"
   /\ Len(Args) = 2 => isString(Args[2]) \/ isOptions(Args[2])
   /\ Len(Args) = 3 => isString(Args[2]) /\ isOptions(Args[3]))
    => /\ Accepted
       /\ Has(opts[1], "command") /\ opts[1].command = Args[1]

\* C24: a record passed as the single argument is normalized to a record
\* with exactly the same fields and values; and normalizing the record the
\* normalizer produced, passed as the single argument, yields that record,
\* and normalizing it again changes nothing.
C24_Idempotent ==
  (OneCalled /\ Accepted) =>
    LET once == normalizeOneOptions(<<OptionsArg(opts[1])>>)
    IN /\ (Len(Args) = 1 /\ isOptions(Args[1])) => opts[1] = Args[1].fields
       /\ once = [options |-> opts[1]]
       /\ normalizeOneOptions(<<OptionsArg(Normalized(<<OptionsArg(opts[1])>>))>>) = once

\* a record with a command, a cwd and a non-zero-exit policy was passed as
\* the single argument and the call ran
C24_Witness ==
  /\ OneCalled
  /\ Len(Args) = 1
  /\ Accepted
  /\ DOMAIN opts[1] = {"command", "cwd", "throwNonZero"}
  /\ pc[1] = "returned"

\* ------------------------------------------------------------------ spawning
\* a shell interprets the text: the primitive was given the shell option and
\* the text, or a shell is the executable and the text follows its -c
InterpretedByShell(call, text) ==
  \/ call.shell /\ call.file = text
  \/ /\ call.file = userShell
     /\ \E k \in 1..(Len(call.args) - 1) :
          call.args[k] = <<"-c">> /\ call.args[k + 1] = text

\* C25 (as claimed): in every mode a string command is spawned through a
\* shell, and an argv-list command without any shell, its first element as
\* the executable and the remaining elements as its literal arguments.
C25_ShellForStringsOnly ==
  \A i \in Inv :
    child[i] # "none" =>
      LET c == opts[i].command
          call == SpawnCall(i)
      IN IF c.form = "string" THEN InterpretedByShell(call, c.text)
         ELSE /\ ~call.shell
              /\ call.file = c.parts[1]
              /\ call.args = Tail(c.parts)

\* ---------------------------------------------------------------- environment
\* the overlay the claim describes, without the color policy: the inherited
\* environment, overlaid by the executor env, then by the per-call env
Overlay(i) ==
  Opt(opts[i], "env", Empty) @@ Opt(createInput, "env", Empty) @@ processEnv
\* the color policy the caller asked for: the call's, else the executor's
AskedColors(i) ==
  IF Has(opts[i], "colors") THEN {opts[i].colors}
  ELSE IF Has(createInput, "colors") THEN {createInput.colors} ELSE {}
IsSet(e, name, value) == Has(e, name) /\ e[name] = value

\* C26 (as claimed): the child's environment is the inherited environment
\* overlaid by the executor env, then the per-call env, then the color
\* variables; colors true sets the forcing variables and unsets NO_COLOR,
\* colors false unsets them and sets NO_COLOR, and with colors left undefined
\* by the call and in the configuration the color variables keep the values
\* of the overlay.
C26_EnvComposition ==
  \A i \in Inv :
    child[i] # "none" =>
      LET e == envForced(i)
      IN /\ \A v \in (DOMAIN e \cup DOMAIN Overlay(i)) \ ColorVariables :
              IsSet(e, v, Overlay(i)[v])
         /\ AskedColors(i) = {"true"} =>
              /\ IsSet(e, "FORCE_COLOR", "3") /\ IsSet(e, "CLICOLOR", "1")
              /\ IsSet(e, "CLICOLOR_FORCE", "1") /\ IsSet(e, "COLORTERM", "truecolor")
              /\ ~Has(e, "NO_COLOR")
         /\ AskedColors(i) = {"false"} =>
              /\ IsSet(e, "NO_COLOR", "1")
              /\ \A v \in ColorVariables \ {"NO_COLOR"} : ~Has(e, v)
         /\ AskedColors(i) = {} =>
              \A v \in ColorVariables :
                IF Has(Overlay(i), v) THEN IsSet(e, v, Overlay(i)[v]) ELSE ~Has(e, v)

\* -------------------------------------------------------------------- timeout
\* C27 (as claimed): when the timeout elapsed and the child was terminated,
\* one() returns a result whose code is non-zero if throwNonZero is false and
\* raises CommandFailed if it is true.
C27_TimeoutNonZero ==
  \A i \in Inv :
    (i \in DOMAIN settlement /\ settlement[i] = TimedOut) =>
      IF Effective(opts[i]).throwNonZero
      THEN pc[i] = "raised" /\ Has(error[i].message, "failed")
      ELSE pc[i] = "returned" /\ res[i].code # 0

\* ------------------------------------------------------- records and results
\* C28: each record is executed by at most one invocation, which spawns at
\* most one child and produces at most one result: a child that was spawned
\* is never spawned again, a one() that settled stays settled and its result
\* stays as it is; and when many() has returned, results[i] is the result of
\* record i, its command the composed command text of record i and its cwd
\* the cwd of record i.
C28_OneInvocationEach ==
  /\ [](manyPc = "returned" =>
          /\ Len(results) = N
          /\ \A i \in Inv :
               /\ i \in DOMAIN res /\ results[i] = res[i]
               /\ results[i].command = CmdStr(opts[i].command)
               /\ results[i].cwd = Cwd(opts[i]))
  /\ [][\A i \in Inv :
          /\ child[i] = "running" => child'[i] \in {"running", "settled"}
          /\ child[i] = "settled" => child'[i] = "settled"
          /\ pc[i] \in {"returned", "raised"} => pc'[i] = pc[i]
          /\ pc[i] = "awaiting" => child[i] = "running"
          /\ i \in DOMAIN res => i \in DOMAIN res' /\ res'[i] = res[i]]_vars

\* a batch of records with different commands and directories returned
C28_Witness ==
  /\ manyPc = "returned"
  /\ N >= 2
  /\ results[1].cwd = Dir(1) /\ results[2].cwd = Dir(2)
  /\ results[1].command # results[2].command

Invocation(k) ==
  <<"(cd ">> \o PathText(Cwd(opts[k])) \o <<" && ">> \o CmdStr(opts[k].command)
    \o <<")">>
Labels == [k \in 1..N |-> Opt(opts[k], "prefix", <<>>)]
NamesArgument == <<"--names ">> \o Quoted(Join(Labels, <<",">>))
\* the argument lists the runner may get before the commands
RunnerArguments ==
  LET shell == <<"--shell ">> \o Quoted(<<"bash -i -c">>)
      colors == <<"--prefix-colors ">> \o Quoted(Join([k \in 1..N |-> <<"auto">>], <<",">>))
  IN {<<>>, <<shell>>, <<NamesArgument, colors>>, <<shell, NamesArgument, colors>>}

\* C30: manyCommand() executes nothing and returns one string: for a
\* sequential batch the strings '(cd <cwd> && <command>)' of all invocations,
\* in expansion order, joined with ' && '; for a parallel batch a call of
\* `concurrently` that lists every invocation once, in expansion order, and
\* has the labels as its --names argument exactly when a label exists.
C30_ComposedCommand ==
  \A text \in composed :
    /\ \A i \in Inv : child[i] = "none" /\ pc[i] = "idle"
    /\ logSink = <<>> /\ term = <<>>
    /\ IF parallel
       THEN \E arguments \in RunnerArguments :
              /\ text = Join(<<<<"concurrently">>>> \o arguments
                               \o [k \in 1..N |-> Quoted(Invocation(k))], <<" ">>)
              /\ (\E k \in 1..Len(arguments) : arguments[k] = NamesArgument)
                   <=> (\E k \in 1..N : Labels[k] # <<>>)
       ELSE text = Join([k \in 1..N |-> Invocation(k)], <<" && ">>)

\* the string of a parallel batch of four or more labelled invocations was
\* composed
C30_Witness ==
  /\ composed # {}
  /\ parallel
  /\ N >= 4
  /\ \A k \in 1..N : Labels[k] # <<>>

\* -------------------------------------------------------------- the composer
\* the prefix and the wrapper the executor was created with, and the command
\* of the call
GivenPrefix == createInput.commandPrefix
GivenCommand == opts[1].command
NoWrapper == ~Has(createInput, "commandWrapper")
\* the command text the banner of invocation 1 shows
BannerText == logSink[1].text.cmd

\* C33: without a wrapper, a string prefix with a string command gives
\* 'prefix command'; an array prefix with an array command their
\* concatenation; an array prefix with a string command an array, the prefix
\* elements followed by the command as one element; a string prefix with an
\* array command a string, the prefix, a space and the elements joined by
\* spaces; and without a prefix the command is returned as it is.
C33_PrefixStep ==
  (OneCalled /\ NoWrapper) =>
    LET composed_ == NormalizedCommand(1)
    IN /\ IF ~Has(createInput, "commandPrefix") THEN composed_ = GivenCommand
          ELSE IF GivenPrefix.form = "string" /\ GivenCommand.form = "string"
          THEN composed_ = [form |-> "string",
                            text |-> GivenPrefix.text \o <<" ">> \o GivenCommand.text]
          ELSE IF GivenPrefix.form = "argv" /\ GivenCommand.form = "argv"
          THEN composed_ = [form |-> "argv",
                            parts |-> GivenPrefix.parts \o GivenCommand.parts]
          ELSE IF GivenPrefix.form = "argv"
          THEN composed_ = [form |-> "argv",
                            parts |-> GivenPrefix.parts \o <<GivenCommand.text>>]
          ELSE composed_ = [form |-> "string",
                            text |-> GivenPrefix.text \o <<" ">>
                                       \o Join(GivenCommand.parts, <<" ">>)]
       /\ BannerText = CmdStr(composed_)

\* an array prefix was put before a string command, and the call ran
C33_Witness ==
  /\ OneCalled
  /\ NoWrapper
  /\ Has(createInput, "commandPrefix")
  /\ GivenPrefix.form = "argv" /\ GivenCommand.form = "string"
  /\ pc[1] = "returned"

GivenWrapper == createInput.commandWrapper
\* the command string the wrapper step starts from
JoinedCommand ==
  CmdStr(IF Has(createInput, "commandPrefix")
         THEN commandPrefixed({GivenPrefix}, GivenCommand) ELSE GivenCommand)
\* the text with every occurrence of the token replaced by the replacement,
\* character for character
Substituted(text, token, replacement) ==
  Flatten([k \in 1..Len(text) |-> IF text[k] = token THEN replacement ELSE <<text[k]>>])

\* C34: with a wrapper that contains the raw placeholder and not the escaped
\* one, the composed command is the wrapper with every occurrence of the
\* placeholder replaced by the joined command string, character for
\* character, whatever characters the command string holds.
C34_RawPlaceholder ==
  (/\ OneCalled
   /\ Has(createInput, "commandWrapper")
   /\ includes(GivenWrapper, Placeholder)
   /\ ~includes(GivenWrapper, PlaceholderEscaped))
    => /\ NormalizedCommand(1) =
            [form |-> "string",
             text |-> Substituted(GivenWrapper, Placeholder, JoinedCommand)]
       /\ BannerText = Substituted(GivenWrapper, Placeholder, JoinedCommand)

\* ------------------------------------------------- order within a batch
\* the step writes to the terminal for invocation i, or appends to one of its
\* captures
WritesTerminal(i) ==
  \E k \in (Len(term) + 1)..Len(term') : term'[k].inv = i
AppendsCapture(i) ==
  out'[i] # out[i] \/ err'[i] # err[i] \/ output'[i] # output[i]
\* the text of all chunks child i delivered, in the order of their arrival
DeliveredText(i) == Flatten(AllChunks(arrived[i]))

\* C32: in a sequential batch every capture append and every terminal write
\* of invocation i happens before invocation i+1 is spawned; a result exists
\* only when its child has exited and every chunk the child delivered is in
\* the capture; and no later step changes a result or delivers a chunk for it.
C32_SequentialComplete ==
  /\ [][~parallel =>
          \A i \in Inv :
            (WritesTerminal(i) \/ AppendsCapture(i) \/ arrived'[i] # arrived[i]) =>
              \A j \in (i + 1)..N : child[j] = "none" /\ child'[j] = "none"]_vars
  /\ [](\A i \in DOMAIN res :
          /\ child[i] = "settled"
          /\ \A s \in Streams : ~streamOpen[i][s]
          /\ ModeOf(i) = "tee" =>
               /\ output[i] = DeliveredText(i)
               /\ res[i].output = DeliveredText(i))
  /\ [][\A i \in DOMAIN res :
          /\ i \in DOMAIN res' /\ res'[i] = res[i]
          /\ arrived'[i] = arrived[i]
          /\ ~AppendsCapture(i)]_vars

\* the first invocation of a sequential batch delivered a chunk in tee mode
\* and returned, and the second one is running
C32_Witness ==
  /\ ~parallel
  /\ N >= 2
  /\ ModeOf(1) = "tee"
  /\ arrived[1] # <<>>
  /\ 1 \in DOMAIN res
  /\ child[2] = "running"

\* the place in the log of the outcome line of invocation i, when it has one
OutcomeAt(i) == {k \in 1..Len(logSink) : logSink[k].inv = i /\ logSink[k].glyph \in {"ok", "fail"}}

\* C35: the array a parallel many() returns has one result for each expanded
\* invocation, in expansion order: results[i] is the result of invocation i,
\* with its command, its cwd and the exit code of its own child, whatever
\* the order in which the children exited.
C35_ParallelOrder ==
  (parallel /\ manyPc = "returned") =>
    /\ Len(results) = N
    /\ \A i \in Inv :
         /\ results[i] = res[i]
         /\ results[i].command = CmdStr(NormalizedCommand(i))
         /\ results[i].cwd = Cwd(opts[i])
         /\ results[i].code = Opt(settlement[i], "exitCode", 0)

\* a parallel batch returned whose second child exited before the first, the
\* two with different exit codes
C35_Witness ==
  /\ parallel
  /\ manyPc = "returned"
  /\ N >= 2
  /\ \E a \in OutcomeAt(1), b \in OutcomeAt(2) : b < a
  /\ results[1].code # results[2].code

\* ----------------------------------------------------- the lines of the log
\* C36 (as claimed): one() never logs a failure line and then returns a result
\* whose code is 0: a returned result with code 0 means that the child exited
\* with status 0, also when the child ended without an exit code.
C36_ZeroMeansSuccess ==
  \A i \in DOMAIN res :
    res[i].code = 0 => (ExitedZero(settlement[i]) /\ FailLines(i) = {})

BannerLines(i) == {k \in 1..Len(logSink) : logSink[k].inv = i /\ logSink[k].glyph = "banner"}

\* C37 (as claimed): for each invocation whose one() logs, exactly one banner
\* line is in the log once the child is spawned, and at most one outcome line
\* (success or failure glyph), after the banner, whether one() returns or
\* raises.
C37_OneBannerOneOutcome ==
  \A i \in Inv :
    (child[i] # "none" /\ ~Effective(opts[i]).silent) =>
      /\ Cardinality(BannerLines(i)) = 1
      /\ Cardinality(OutcomeAt(i)) <= 1
      /\ \A b \in BannerLines(i), k \in OutcomeAt(i) : b < k

\* --------------------------------------------- manyCommand() and many()
\* the string manyCommand() gives an invocation that many() ran with the
\* result r
Ran(r) == <<"(cd ">> \o PathText(r.cwd) \o <<" && ">> \o r.command \o <<")">>

\* C38: for the same arguments and the same executor manyCommand() renders
\* the invocations many() executes: when many() has returned, the string is
\* made of one part for each result, in the order of the results, with the
\* cwd and the command text of the result, and in a parallel batch the names
\* are the aligned prefixes many() handed to its invocations.
C38_RendersWhatRuns ==
  \A text \in composed :
    manyPc = "returned" =>
      IF parallel
      THEN \E arguments \in RunnerArguments :
             text = Join(<<<<"concurrently">>>> \o arguments
                           \o [k \in 1..Len(results) |-> Quoted(Ran(results[k]))],
                         <<" ">>)
      ELSE text = Join([k \in 1..Len(results) |-> Ran(results[k])], <<" && ">>)

\* manyCommand() and a parallel many() ran on the same arguments, and the
\* shorter of the two names was padded to the length of the longer
C38_Witness ==
  /\ composed # {}
  /\ manyPc = "returned"
  /\ parallel
  /\ N = 2
  /\ Labels[1] # <<>>
  /\ Len(Labels[1]) = Len(Labels[2])
  /\ Labels[1][Len(Labels[1])] = " "
  /\ Labels[2][Len(Labels[2])] # " "

RECURSIVE ShellWords(_, _, _, _)
ShellWords(text, quote, word, open) ==
  IF text = <<>> THEN (IF open THEN <<word>> ELSE <<>>)
  ELSE LET c == Head(text)
           rest == Tail(text)
       IN IF quote = "'"
          THEN IF c = "'" THEN ShellWords(rest, "", word, TRUE)
               ELSE ShellWords(rest, quote, Append(word, c), TRUE)
          ELSE IF quote = "\""
          THEN IF c = "\"" THEN ShellWords(rest, "", word, TRUE)
               ELSE IF c = "\\" /\ rest # <<>> /\ Head(rest) \in {"\"", "\\", "$", "BQ"}
               THEN ShellWords(Tail(rest), quote, Append(word, Head(rest)), TRUE)
               ELSE IF c \in {"$", "BQ"}
               THEN ShellWords(rest, quote, Append(word, "expansion"), TRUE)
               ELSE ShellWords(rest, quote, Append(word, c), TRUE)
          ELSE IF c = " "
               THEN (IF open THEN <<word>> ELSE <<>>) \o ShellWords(rest, "", <<>>, FALSE)
               ELSE IF c \in {"'", "\""} THEN ShellWords(rest, c, word, TRUE)
               ELSE IF c = "\\" /\ rest # <<>>
               THEN ShellWords(Tail(rest), "", Append(word, Head(rest)), TRUE)
               ELSE IF c \in {"$", "BQ"}
               THEN ShellWords(rest, "", Append(word, "expansion"), TRUE)
               ELSE IF c = "&"
               THEN ShellWords(rest, "", Append(word, "operator"), TRUE)
               ELSE ShellWords(rest, "", Append(word, c), TRUE)
Evaluated(text) == ShellWords(text, "", <<>>, FALSE)
\* the wrapper with the escaped placeholder between double quotes
EscapedWrapper == <<"sh", " ", "-c", " ", "\"", PlaceholderEscaped, "\"">>

\* C31 (as claimed): an argv command composed with a wrapper that has the
\* escaped placeholder between double quotes, and then evaluated by a shell,
\* gives the arguments of the argv form: the outer shell makes three words
\* of the composed text, and the shell it starts makes of the third the
\* elements of the argv list, with their boundaries and their texts.
C31_EscapedRoundTrip ==
  (/\ OneCalled
   /\ ~Has(createInput, "commandPrefix")
   /\ Has(createInput, "commandWrapper")
   /\ GivenWrapper = EscapedWrapper
   /\ GivenCommand.form = "argv")
    => LET outer == Evaluated(CmdStr(NormalizedCommand(1)))
       IN /\ Len(outer) = 3
          /\ Evaluated(outer[3]) = GivenCommand.parts
====
